---- MODULE Spec2Model ----
(***************************************************************************)
(* SM-Vault: client-side vault encryption (frontend/src/lib/crypto.ts),    *)
(* the session and vault page that use it, and the requests they send.     *)
(*                                                                         *)
(* Text is a sequence of UTF-16 code units, binary data a sequence of      *)
(* bytes. The platform primitives the code calls are modelled by what      *)
(* they compute (TextEncoder, TextDecoder, JSON, btoa, atob); PBKDF2 and   *)
(* AES-GCM are modelled as ideal primitives: the derived key is an         *)
(* injective function of (password bytes, salt), and a ciphertext opens    *)
(* only under the key and iv it was sealed with. crypto.getRandomValues    *)
(* is an ideal source: no two draws return the same bytes.                 *)
(***************************************************************************)
EXTENDS Integers, Sequences, FiniteSets, TLC

\* ------------------------------------------------------------------ bounds
\* calls of crypto.subtle.encrypt over one behaviour
MaxEnc == 2
\* records handed to one exportVaultData call
MaxItems == 2
\* generated password length
MaxPwLen == 3
\* signup and login requests over one behaviour
MaxAuth == 2
\* length of the short byte sequences that are base64-encoded
MaxBytes == 3
\* copy attempts over one behaviour
MaxCopies == 2
\* calls of the vault page's handlers in progress at a time
MaxHandlers == 2

\* ------------------------------------------------------- program constants
SaltLen == 16
IvLen == 12
\* AES-GCM's default tag length in bytes (no tagLength is passed)
TagLen == 16
chunkSize == 32768
ExportVersion == 1
ExportIndent == 2
\* the README's auto-clear interval, in seconds
AutoClearSeconds == 15
\* the page time modelled, in seconds: the interval and three seconds more
MaxTime == AutoClearSeconds + 3

\* ------------------------------------------------------------- text helpers
Null == [t |-> "null"]

\* F(v), with v evaluated once before F reads it (a local const binding)
With(v, F(_)) == CHOOSE y \in {F(x) : x \in {v}} : TRUE

RECURSIVE ConcatRange(_, _, _)
\* pieces[lo] \o ... \o pieces[hi], split in halves
ConcatRange(pieces, lo, hi) ==
  IF lo > hi THEN <<>>
  ELSE IF lo = hi THEN pieces[lo]
  ELSE LET mid == (lo + hi) \div 2
       IN ConcatRange(pieces, lo, mid) \o ConcatRange(pieces, mid + 1, hi)

\* the concatenation of a sequence of sequences
Concat(pieces) == ConcatRange(pieces, 1, Len(pieces))

Range(s) == {s[i] : i \in DOMAIN s}

IsHighSurrogate(c) == c >= 55296 /\ c <= 56319
IsLowSurrogate(c) == c >= 56320 /\ c <= 57343

HexDigits == <<48, 49, 50, 51, 52, 53, 54, 55, 56, 57, 97, 98, 99, 100, 101, 102>>

\* \uXXXX with four lowercase hex digits
UnicodeEscape(c) ==
  <<92, 117, HexDigits[((c \div 4096) % 16) + 1], HexDigits[((c \div 256) % 16) + 1],
    HexDigits[((c \div 16) % 16) + 1], HexDigits[(c % 16) + 1]>>

\* ------------------------------------------------- TextEncoder / TextDecoder
\* the UTF-8 bytes of one code point
Utf8OfCodePoint(cp) ==
  IF cp < 128 THEN <<cp>>
  ELSE IF cp < 2048 THEN <<192 + (cp \div 64), 128 + (cp % 64)>>
  ELSE IF cp < 65536 THEN <<224 + (cp \div 4096), 128 + ((cp \div 64) % 64), 128 + (cp % 64)>>
  ELSE <<240 + (cp \div 262144), 128 + ((cp \div 4096) % 64), 128 + ((cp \div 64) % 64), 128 + (cp % 64)>>

\* s[i] and s[i + 1] are a surrogate pair
PairAt(s, i) == i >= 1 /\ i < Len(s) /\ IsHighSurrogate(s[i]) /\ IsLowSurrogate(s[i + 1])

\* an encoder that writes one byte per code unit, its low eight bits
TextEncodeLowByte(text) == [i \in DOMAIN text |-> text[i] % 256]

\* new TextEncoder().encode(s): UTF-8, a surrogate pair as one code point,
\* an unpaired surrogate as U+FFFD
TextEncode(text) ==
  With(text, LAMBDA s :
  Concat([i \in DOMAIN s |->
    IF PairAt(s, i) THEN Utf8OfCodePoint(65536 + (s[i] - 55296) * 1024 + (s[i + 1] - 56320))
    ELSE IF PairAt(s, i - 1) THEN <<>>
    ELSE IF IsHighSurrogate(s[i]) \/ IsLowSurrogate(s[i]) THEN <<239, 191, 189>>
    ELSE Utf8OfCodePoint(s[i])]))

IsCont(b, i) == i <= Len(b) /\ b[i] >= 128 /\ b[i] <= 191

\* the UTF-16 code units of one code point
Utf16OfCodePoint(cp) ==
  IF cp < 65536 THEN <<cp>>
  ELSE <<55296 + ((cp - 65536) \div 1024), 56320 + ((cp - 65536) % 1024)>>

\* the length of the well-formed UTF-8 sequence that starts at b[i], 0 if none
Utf8SeqLen(b, i) ==
  IF i < 1 \/ i > Len(b) THEN 0
  ELSE IF b[i] < 128 THEN 1
  ELSE IF b[i] >= 194 /\ b[i] <= 223 /\ IsCont(b, i + 1) THEN 2
  ELSE IF b[i] >= 224 /\ b[i] <= 239 /\ IsCont(b, i + 1) /\ IsCont(b, i + 2)
          /\ (b[i] = 224 => b[i + 1] >= 160) /\ (b[i] = 237 => b[i + 1] <= 159) THEN 3
  ELSE IF b[i] >= 240 /\ b[i] <= 244 /\ IsCont(b, i + 1) /\ IsCont(b, i + 2) /\ IsCont(b, i + 3)
          /\ (b[i] = 240 => b[i + 1] >= 144) /\ (b[i] = 244 => b[i + 1] <= 143) THEN 4
  ELSE 0

\* b[i + 1] may follow the lead byte b[i] in a well-formed sequence
SecondOk(b, i) ==
  /\ IsCont(b, i + 1)
  /\ b[i] = 224 => b[i + 1] >= 160
  /\ b[i] = 237 => b[i + 1] <= 159
  /\ b[i] = 240 => b[i + 1] >= 144
  /\ b[i] = 244 => b[i + 1] <= 143

\* the number of bytes the decoder consumes at b[i] as one unit: a
\* well-formed sequence, or else the longest start of one (at least b[i])
Utf8UnitLen(b, i) ==
  IF i < 1 \/ i > Len(b) THEN 0
  ELSE IF Utf8SeqLen(b, i) > 0 THEN Utf8SeqLen(b, i)
  ELSE IF b[i] >= 224 /\ b[i] <= 239 /\ SecondOk(b, i) THEN 2
  ELSE IF b[i] >= 240 /\ b[i] <= 244 /\ SecondOk(b, i) THEN (IF IsCont(b, i + 2) THEN 3 ELSE 2)
  ELSE 1

\* the code units decoded at byte i: those of the sequence starting there,
\* none for a byte inside an earlier unit, U+FFFD for an ill-formed unit
Utf8DecodeAt(b, i) ==
  LET n == Utf8SeqLen(b, i)
  IN IF \E k \in 1..3 : Utf8UnitLen(b, i - k) > k THEN <<>>
     ELSE CASE n = 1 -> <<b[i]>>
            [] n = 2 -> <<(b[i] - 192) * 64 + (b[i + 1] - 128)>>
            [] n = 3 -> <<(b[i] - 224) * 4096 + (b[i + 1] - 128) * 64 + (b[i + 2] - 128)>>
            [] n = 4 -> Utf16OfCodePoint((b[i] - 240) * 262144 + (b[i + 1] - 128) * 4096
                                         + (b[i + 2] - 128) * 64 + (b[i + 3] - 128))
            [] OTHER -> <<65533>>

\* new TextDecoder().decode(b): UTF-8, non-fatal (an ill-formed unit becomes
\* U+FFFD), a leading byte order mark is dropped
TextDecode(bytes) ==
  With(bytes, LAMBDA b :
  LET from == IF Len(b) >= 3 /\ b[1] = 239 /\ b[2] = 187 /\ b[3] = 191 THEN 4 ELSE 1
  IN ConcatRange([i \in DOMAIN b |-> Utf8DecodeAt(b, i)], from, Len(b)))

\* ------------------------------------------------------------ JSON values
\* a JSON value is tagged: null, bool, num, str (code units), arr, obj (its
\* keys in insertion order with their values)
JStr(s) == [t |-> "str", s |-> s]
JNum(n) == [t |-> "num", n |-> n]
JBool(b) == [t |-> "bool", b |-> b]
JArr(a) == [t |-> "arr", a |-> a]
JObj(keys, vals) == [t |-> "obj", keys |-> keys, vals |-> vals]
\* the value JavaScript gives for a property that is absent
Undefined == [t |-> "undefined"]

\* o[k] as JavaScript reads it: the last value stored under k, else undefined
Get(o, k) ==
  IF o.t = "obj" /\ \E i \in DOMAIN o.keys : o.keys[i] = k
  THEN o.vals[CHOOSE i \in DOMAIN o.keys : o.keys[i] = k /\ \A j \in (i + 1)..Len(o.keys) : o.keys[j] # k]
  ELSE Undefined

\* !v as JavaScript evaluates it
Falsy(v) ==
  \/ v.t \in {"undefined", "null"}
  \/ v.t = "bool" /\ ~v.b
  \/ v.t = "num" /\ v.n = 0
  \/ v.t = "str" /\ v.s = <<>>

\* ---------------------------------------------------------- JSON.stringify
\* QuoteJSONString: the short escapes, \u00xx for other control characters,
\* \udxxx for an unpaired surrogate, every other code unit as it is
QuoteAt(s, i) ==
  IF PairAt(s, i) \/ PairAt(s, i - 1) THEN <<s[i]>>
  ELSE CASE s[i] = 8 -> <<92, 98>>
         [] s[i] = 9 -> <<92, 116>>
         [] s[i] = 10 -> <<92, 110>>
         [] s[i] = 12 -> <<92, 102>>
         [] s[i] = 13 -> <<92, 114>>
         [] s[i] = 34 -> <<92, 34>>
         [] s[i] = 92 -> <<92, 92>>
         [] s[i] \notin {8, 9, 10, 12, 13, 34, 92}
            /\ (s[i] < 32 \/ IsHighSurrogate(s[i]) \/ IsLowSurrogate(s[i])) -> UnicodeEscape(s[i])
         [] OTHER -> <<s[i]>>

QuoteJSONString(text) == With(text, LAMBDA s : <<34>> \o Concat([i \in DOMAIN s |-> QuoteAt(s, i)]) \o <<34>>)

RECURSIVE DigitsOf(_)
DigitsOf(n) == IF n < 10 THEN <<48 + n>> ELSE DigitsOf(n \div 10) \o <<48 + (n % 10)>>

\* Number::toString of an integer
NumberToText(n) == IF n < 0 THEN <<45>> \o DigitsOf(0 - n) ELSE DigitsOf(n)

RECURSIVE JoinWith(_, _)
\* parts joined with sep between them
JoinWith(parts, sep) ==
  IF parts = <<>> THEN <<>>
  ELSE IF Len(parts) = 1 THEN parts[1]
  ELSE parts[1] \o sep \o JoinWith(Tail(parts), sep)

RECURSIVE SerializeJSONProperty(_, _, _)
\* the text of value v at indentation indent, gap being the indent unit
\* (<<>> for JSON.stringify(v), n spaces for JSON.stringify(v, null, n))
SerializeJSONProperty(v, indent, gap) ==
  LET inner == indent \o gap
      sep == IF gap = <<>> THEN <<44>> ELSE <<44, 10>> \o inner
      open(c) == IF gap = <<>> THEN <<c>> ELSE <<c, 10>> \o inner
      close(c) == IF gap = <<>> THEN <<c>> ELSE <<10>> \o indent \o <<c>>
      colon == IF gap = <<>> THEN <<58>> ELSE <<58, 32>>
  IN CASE v.t = "null" -> <<110, 117, 108, 108>>
       [] v.t = "bool" -> IF v.b THEN <<116, 114, 117, 101>> ELSE <<102, 97, 108, 115, 101>>
       [] v.t = "num" -> NumberToText(v.n)
       [] v.t = "str" -> QuoteJSONString(v.s)
       [] v.t = "arr" ->
            IF v.a = <<>> THEN <<91, 93>>
            ELSE open(91)
                 \o JoinWith([i \in DOMAIN v.a |-> SerializeJSONProperty(v.a[i], inner, gap)], sep)
                 \o close(93)
       [] v.t = "obj" ->
            IF v.keys = <<>> THEN <<123, 125>>
            ELSE open(123)
                 \o JoinWith([i \in DOMAIN v.keys |->
                       QuoteJSONString(v.keys[i]) \o colon \o SerializeJSONProperty(v.vals[i], inner, gap)], sep)
                 \o close(125)

Spaces(n) == [i \in 1..n |-> 32]

\* JSON.stringify(v) and JSON.stringify(v, null, n)
JSONStringify(v) == SerializeJSONProperty(v, <<>>, <<>>)
JSONStringifyIndent(v, n) == SerializeJSONProperty(v, <<>>, Spaces(n))

\* -------------------------------------------------------------- JSON.parse
\* a parse step answers [ok, v, i]: whether it succeeded, the value read and
\* the index after it. Numbers are read as integers only (the export format
\* holds no other kind).
ParseFail == [ok |-> FALSE, v |-> Null, i |-> 0]
ParseOk(v, i) == [ok |-> TRUE, v |-> v, i |-> i]

IsWs(c) == c \in {32, 9, 10, 13}
IsDigit(c) == c >= 48 /\ c <= 57
IsHex(c) == IsDigit(c) \/ (c >= 97 /\ c <= 102) \/ (c >= 65 /\ c <= 70)
HexVal(c) == IF IsDigit(c) THEN c - 48 ELSE IF c >= 97 THEN c - 87 ELSE c - 55

\* the first index from i on that holds no whitespace (Len(s) + 1 if none)
SkipWs(s, i) ==
  CHOOSE j \in i..(Len(s) + 1) : (j <= Len(s) => ~IsWs(s[j])) /\ \A k \in i..(j - 1) : IsWs(s[k])

\* s holds the word w at index i
HasWord(s, i, w) == i + Len(w) - 1 <= Len(s) /\ SubSeq(s, i, i + Len(w) - 1) = w

\* the number of backslashes that directly precede index j, from index i on
BackslashRun(s, i, j) ==
  LET from == CHOOSE k \in i..j : (\A m \in k..(j - 1) : s[m] = 92) /\ (k > i => s[k - 1] # 92)
  IN j - from

\* index k begins an escape of the string literal whose body starts at i
EscapeAt(s, i, k) == k >= i /\ k <= Len(s) /\ s[k] = 92 /\ BackslashRun(s, i, k) % 2 = 0

\* the code units the body index k stands for; <<-1>> marks an error
StringPieceAt(s, i, end, k) ==
  IF EscapeAt(s, i, k) THEN
    (IF k + 1 >= end THEN <<0 - 1>>
     ELSE CASE s[k + 1] \in {34, 92, 47} -> <<s[k + 1]>>
            [] s[k + 1] = 98 -> <<8>>
            [] s[k + 1] = 102 -> <<12>>
            [] s[k + 1] = 110 -> <<10>>
            [] s[k + 1] = 114 -> <<13>>
            [] s[k + 1] = 116 -> <<9>>
            [] s[k + 1] = 117 /\ k + 5 < end /\ (\A m \in 2..5 : IsHex(s[k + m])) ->
                 <<HexVal(s[k + 2]) * 4096 + HexVal(s[k + 3]) * 256 + HexVal(s[k + 4]) * 16 + HexVal(s[k + 5])>>
            [] OTHER -> <<0 - 1>>)
  ELSE IF EscapeAt(s, i, k - 1) THEN <<>>
  ELSE IF \E m \in 2..5 : EscapeAt(s, i, k - m) /\ s[k - m + 1] = 117 THEN <<>>
  ELSE IF s[k] < 32 THEN <<0 - 1>>
  ELSE <<s[k]>>

\* the rest of a string literal whose opening quote has been read: its body
\* runs from i to the first quote that no backslash escapes
ParseStringBody(s, i, acc) ==
  With({j \in i..Len(s) : s[j] = 34 /\ BackslashRun(s, i, j) % 2 = 0}, LAMBDA ends :
    IF ends = {} THEN ParseFail
    ELSE With(CHOOSE j \in ends : \A m \in ends : j <= m, LAMBDA end :
      With(ConcatRange([k \in 1..Len(s) |-> IF k >= i /\ k < end THEN StringPieceAt(s, i, end, k) ELSE <<>>],
                       i, end - 1), LAMBDA body :
        IF \E n \in DOMAIN body : body[n] < 0 THEN ParseFail
        ELSE ParseOk(JStr(acc \o body), end + 1))))

RECURSIVE ParseDigits(_, _, _)
ParseDigits(s, i, acc) ==
  IF i <= Len(s) /\ IsDigit(s[i]) THEN ParseDigits(s, i + 1, acc * 10 + (s[i] - 48)) ELSE ParseOk(JNum(acc), i)

\* an integer literal: -? (0 | [1-9][0-9]*), with no fraction or exponent
ParseNumber(s, i) ==
  LET neg == s[i] = 45
      j == IF neg THEN i + 1 ELSE i
  IN IF j > Len(s) \/ ~IsDigit(s[j]) THEN ParseFail
     ELSE With(IF s[j] = 48 THEN ParseOk(JNum(0), j + 1) ELSE ParseDigits(s, j, 0), LAMBDA r :
            IF r.i <= Len(s) /\ s[r.i] \in {46, 101, 69} THEN ParseFail
            ELSE IF neg THEN ParseOk(JNum(0 - r.v.n), r.i) ELSE r)

\* the object (keys, vals) with k set to v: a repeated key keeps its first
\* place and takes the last value
PutKey(o, k, v) ==
  IF \E n \in DOMAIN o.keys : o.keys[n] = k
  THEN JObj(o.keys, [n \in DOMAIN o.vals |-> IF o.keys[n] = k THEN v ELSE o.vals[n]])
  ELSE JObj(Append(o.keys, k), Append(o.vals, v))

RECURSIVE ParseValue(_, _)
RECURSIVE ParseElements(_, _, _)
RECURSIVE ParseMembers(_, _, _)

\* the elements of an array from index i on, the first or the one after a comma
ParseElements(s, i, acc) ==
  With(ParseValue(s, SkipWs(s, i)), LAMBDA e :
    IF ~e.ok THEN ParseFail
    ELSE With(SkipWs(s, e.i), LAMBDA j :
      IF j > Len(s) THEN ParseFail
      ELSE IF s[j] = 93 THEN ParseOk(JArr(Append(acc, e.v)), j + 1)
      ELSE IF s[j] = 44 THEN With(Append(acc, e.v), LAMBDA read : ParseElements(s, j + 1, read))
      ELSE ParseFail))

\* the members of an object from index i on, the first or the one after a comma
ParseMembers(s, i, acc) ==
  With(SkipWs(s, i), LAMBDA ki :
  With(IF ki <= Len(s) /\ s[ki] = 34 THEN ParseStringBody(s, ki + 1, <<>>) ELSE ParseFail, LAMBDA k :
    IF ~k.ok THEN ParseFail
    ELSE With(SkipWs(s, k.i), LAMBDA ci :
      IF ci > Len(s) \/ s[ci] # 58 THEN ParseFail
      ELSE With(ParseValue(s, SkipWs(s, ci + 1)), LAMBDA e :
        IF ~e.ok THEN ParseFail
        ELSE With(SkipWs(s, e.i), LAMBDA j :
          IF j > Len(s) THEN ParseFail
          ELSE IF s[j] = 125 THEN ParseOk(PutKey(acc, k.v.s, e.v), j + 1)
          ELSE IF s[j] = 44 THEN With(PutKey(acc, k.v.s, e.v), LAMBDA read : ParseMembers(s, j + 1, read))
          ELSE ParseFail)))))

ParseValue(s, at) ==
  With(at, LAMBDA i :
  IF i > Len(s) THEN ParseFail
  ELSE IF s[i] = 34 THEN ParseStringBody(s, i + 1, <<>>)
  ELSE IF s[i] = 45 \/ IsDigit(s[i]) THEN ParseNumber(s, i)
  ELSE IF HasWord(s, i, <<116, 114, 117, 101>>) THEN ParseOk(JBool(TRUE), i + 4)
  ELSE IF HasWord(s, i, <<102, 97, 108, 115, 101>>) THEN ParseOk(JBool(FALSE), i + 5)
  ELSE IF HasWord(s, i, <<110, 117, 108, 108>>) THEN ParseOk(Null, i + 4)
  ELSE IF s[i] = 91 THEN
    (LET j == SkipWs(s, i + 1)
     IN IF j <= Len(s) /\ s[j] = 93 THEN ParseOk(JArr(<<>>), j + 1) ELSE ParseElements(s, j, <<>>))
  ELSE IF s[i] = 123 THEN
    (LET j == SkipWs(s, i + 1)
     IN IF j <= Len(s) /\ s[j] = 125 THEN ParseOk(JObj(<<>>, <<>>), j + 1)
        ELSE ParseMembers(s, j, JObj(<<>>, <<>>)))
  ELSE ParseFail)

\* JSON.parse(s): [ok |-> TRUE, v |-> the value], or [ok |-> FALSE] where
\* JSON.parse throws SyntaxError
JSONParse(text) ==
  With(text, LAMBDA s :
  With(ParseValue(s, SkipWs(s, 1)), LAMBDA r :
    IF r.ok /\ SkipWs(s, r.i) > Len(s) THEN [ok |-> TRUE, v |-> r.v] ELSE [ok |-> FALSE, v |-> Null]))

\* -------------------------------------------------------------- btoa / atob
Base64Alphabet ==
  <<65, 66, 67, 68, 69, 70, 71, 72, 73, 74, 75, 76, 77, 78, 79, 80, 81, 82, 83, 84, 85, 86, 87, 88, 89, 90,
    97, 98, 99, 100, 101, 102, 103, 104, 105, 106, 107, 108, 109, 110, 111, 112, 113, 114, 115, 116, 117,
    118, 119, 120, 121, 122, 48, 49, 50, 51, 52, 53, 54, 55, 56, 57, 43, 47>>

\* the place (0..63) of a base64 character, -1 for any other code unit
SextetOf(c) ==
  IF c >= 65 /\ c <= 90 THEN c - 65
  ELSE IF c >= 97 /\ c <= 122 THEN c - 71
  ELSE IF c >= 48 /\ c <= 57 THEN c + 4
  ELSE IF c = 43 THEN 62
  ELSE IF c = 47 THEN 63
  ELSE 0 - 1

ByteAt(b, i) == IF i <= Len(b) THEN b[i] ELSE 0

\* btoa(binary), binary a string of code units 0..255: base64 with = padding
btoa(data) ==
  With(data, LAMBDA binary :
  LET n == Len(binary)
      group(g) == ByteAt(binary, 3 * g + 1) * 65536 + ByteAt(binary, 3 * g + 2) * 256 + ByteAt(binary, 3 * g + 3)
      sextet(g, k) == CASE k = 0 -> group(g) \div 262144
                        [] k = 1 -> (group(g) \div 4096) % 64
                        [] k = 2 -> (group(g) \div 64) % 64
                        [] k = 3 -> group(g) % 64
  IN [j \in 1..(4 * ((n + 2) \div 3)) |->
        LET g == (j - 1) \div 4
            k == (j - 1) % 4
        IN IF k >= 2 /\ 3 * g + k > n THEN 61 ELSE Base64Alphabet[sextet(g, k) + 1]])

\* s without ASCII whitespace (tab, line feed, form feed, carriage return, space)
StripWs(text) == SelectSeq(text, LAMBDA c : c \notin {9, 10, 12, 13, 32})

\* atob(text), the forgiving-base64 decode: whitespace is dropped, one or two
\* trailing = are dropped when the length is a multiple of 4, a length of
\* 1 mod 4 or a code unit outside the alphabet is an error, and the bits
\* left over after the last whole byte are discarded unread.
\* [ok |-> TRUE, bin |-> code units 0..255], or [ok |-> FALSE] where atob
\* throws InvalidCharacterError
atob(text) ==
  With(StripWs(text), LAMBDA t1 :
  With(IF Len(t1) > 0 /\ Len(t1) % 4 = 0 /\ t1[Len(t1)] = 61
       THEN (IF t1[Len(t1) - 1] = 61 THEN SubSeq(t1, 1, Len(t1) - 2) ELSE SubSeq(t1, 1, Len(t1) - 1))
       ELSE t1, LAMBDA t2 :
  LET n == Len(t2)
      sx(i) == IF i <= n THEN SextetOf(t2[i]) ELSE 0
      group(g) == sx(4 * g + 1) * 262144 + sx(4 * g + 2) * 4096 + sx(4 * g + 3) * 64 + sx(4 * g + 4)
      nbytes == (n * 6) \div 8
  IN IF n % 4 = 1 \/ \E i \in 1..n : SextetOf(t2[i]) < 0 THEN [ok |-> FALSE, bin |-> <<>>]
     ELSE [ok |-> TRUE,
           bin |-> [j \in 1..nbytes |->
                      LET g == (j - 1) \div 3
                          k == (j - 1) % 3
                      IN CASE k = 0 -> group(g) \div 65536
                           [] k = 1 -> (group(g) \div 256) % 256
                           [] k = 2 -> group(g) % 256]]))

\* ---------------------------------------- crypto.ts: the base64 utilities
RECURSIVE FromCharCodeChunksSkipping(_, _)
\* a loop whose next chunk starts one byte after the end of the last
FromCharCodeChunksSkipping(bytes, i) ==
  IF i >= Len(bytes) THEN <<>>
  ELSE LET end == IF i + chunkSize < Len(bytes) THEN i + chunkSize ELSE Len(bytes)
       IN SubSeq(bytes, i + 1, end) \o FromCharCodeChunksSkipping(bytes, i + chunkSize + 1)

RECURSIVE FromCharCodeChunks(_, _)
\* the loop of arrayBufferToBase64: binary += String.fromCharCode.apply(null,
\* chunk) for each chunk of chunkSize bytes starting at byte i (from 0)
FromCharCodeChunks(bytes, i) ==
  IF i >= Len(bytes) THEN <<>>
  ELSE LET end == IF i + chunkSize < Len(bytes) THEN i + chunkSize ELSE Len(bytes)
       IN SubSeq(bytes, i + 1, end) \o FromCharCodeChunks(bytes, i + chunkSize)

arrayBufferToBase64(buffer) == With(buffer, LAMBDA bytes : btoa(FromCharCodeChunks(bytes, 0)))

\* [ok, bytes]: atob's binary string copied code unit by code unit into a
\* Uint8Array; not ok where atob throws
base64ToArrayBuffer(base64) ==
  With(atob(base64), LAMBDA r : [ok |-> r.ok, bytes |-> [i \in 1..Len(r.bin) |-> r.bin[i] % 256]])

\* ------------------------------------------------------ platform primitives
PBKDF2Iterations == 100000
AesKeyBits == 256

\* a source that returns the same n bytes at every draw
getRandomValuesFixed(n, k) == [i \in 1..n |-> (i * 7 + 13) % 256]

\* crypto.getRandomValues(new Uint8Array(n)) as the k-th draw of an ideal
\* source: n bytes that no other draw returns
getRandomValues(n, k) == [i \in 1..n |-> (k * 89 + i * 7 + 13) % 256]

\* ToString(v) as applied by atob to its argument
RECURSIVE ToStringJS(_)
ToStringJS(v) ==
  CASE v.t = "str" -> v.s
    [] v.t = "undefined" -> <<117, 110, 100, 101, 102, 105, 110, 101, 100>>
    [] v.t = "null" -> <<110, 117, 108, 108>>
    [] v.t = "bool" -> IF v.b THEN <<116, 114, 117, 101>> ELSE <<102, 97, 108, 115, 101>>
    [] v.t = "num" -> NumberToText(v.n)
    [] v.t = "arr" -> JoinWith([i \in DOMAIN v.a |->
                          IF v.a[i].t \in {"null", "undefined"} THEN <<>> ELSE ToStringJS(v.a[i])], <<44>>)
    [] v.t = "obj" -> <<91, 111, 98, 106, 101, 99, 116, 32, 79, 98, 106, 101, 99, 116, 93>>

\* crypto.subtle.encrypt({name: 'AES-GCM', iv}, key, pt) as an ideal
\* authenticated cipher over the table orc of what has been sealed so far:
\* the ciphertext is Len(pt) + TagLen bytes that depend on (key, iv, pt) only
\* through the table, and differ from every ciphertext sealed before
AesGcmSeal(key, iv, pt, orc) ==
  IF \E e \in orc : e.key = key /\ e.iv = iv /\ e.pt = pt
  THEN (CHOOSE e \in orc : e.key = key /\ e.iv = iv /\ e.pt = pt).ct
  ELSE [i \in 1..(Len(pt) + TagLen) |-> (Cardinality(orc) * 101 + i * 3 + 7) % 256]

\* a cipher without authentication: whatever is presented under a key and iv
\* that sealed something opens
AesGcmOpenUnchecked(key, iv, ct, orc) ==
  IF \E e \in orc : e.key = key /\ e.iv = iv
  THEN [ok |-> TRUE, pt |-> (CHOOSE e \in orc : e.key = key /\ e.iv = iv).pt]
  ELSE [ok |-> FALSE, pt |-> <<>>]

\* crypto.subtle.decrypt({name: 'AES-GCM', iv}, key, ct): the plaintext sealed
\* as ct under this key and iv; not ok (OperationError) for anything else
AesGcmOpen(key, iv, ct, orc) ==
  IF \E e \in orc : e.key = key /\ e.iv = iv /\ e.ct = ct
  THEN [ok |-> TRUE, pt |-> (CHOOSE e \in orc : e.key = key /\ e.iv = iv /\ e.ct = ct).pt]
  ELSE [ok |-> FALSE, pt |-> <<>>]

\* ------------------------------------------- crypto.ts: the record cipher
KeyTitle == <<116, 105, 116, 108, 101>>
KeyUsername == <<117, 115, 101, 114, 110, 97, 109, 101>>
KeyPassword == <<112, 97, 115, 115, 119, 111, 114, 100>>
KeyUrl == <<117, 114, 108>>
KeyNotes == <<110, 111, 116, 101, 115>>
KeyEncrypted == <<101, 110, 99, 114, 121, 112, 116, 101, 100>>
KeySalt == <<115, 97, 108, 116>>
KeyIv == <<105, 118>>

VaultItemKeys == <<KeyTitle, KeyUsername, KeyPassword, KeyUrl, KeyNotes>>

\* a VaultItem object literal
VaultItem(title, username, password, url, notes) ==
  JObj(VaultItemKeys, <<JStr(title), JStr(username), JStr(password), JStr(url), JStr(notes)>>)

\* an EncryptedData object literal
EncryptedData(encrypted, salt, iv) ==
  JObj(<<KeyEncrypted, KeySalt, KeyIv>>, <<JStr(encrypted), JStr(salt), JStr(iv)>>)

\* what an operation answers: ok with its value, or the error it throws
Returns(v) == [ok |-> TRUE, v |-> v, err |-> "", cause |-> ""]
Throws(err, cause) == [ok |-> FALSE, v |-> Null, err |-> err, cause |-> cause]

\* a derivation that reads the salt and not the password
deriveKeyOfSalt(masterPassword, salt) ==
  [material |-> <<>>, salt |-> salt, iterations |-> PBKDF2Iterations, hash |-> "SHA-256", length |-> AesKeyBits]

\* deriveKey: PBKDF2 over the UTF-8 bytes of the password, as an ideal
\* derivation (the key is determined by, and determines, its inputs)
deriveKey(masterPassword, salt) ==
  [material |-> TextEncode(masterPassword), salt |-> salt,
   iterations |-> PBKDF2Iterations, hash |-> "SHA-256", length |-> AesKeyBits]

\* encryptVaultItem(data, masterPassword) when its two getRandomValues calls
\* are draws number draw and draw + 1 and the cipher's table is orc:
\* the EncryptedData returned and the entry the cipher adds to its table
encryptVaultItem(data, masterPassword, draw, orc) ==
  With(getRandomValues(SaltLen, draw), LAMBDA salt :
  With(getRandomValues(IvLen, draw + 1), LAMBDA iv :
  With(deriveKey(masterPassword, salt), LAMBDA key :
  With(TextEncode(JSONStringify(data)), LAMBDA pt :
  With(AesGcmSeal(key, iv, pt, orc), LAMBDA encrypted :
    [blob |-> EncryptedData(arrayBufferToBase64(encrypted), arrayBufferToBase64(salt),
                            arrayBufferToBase64(iv)),
     entry |-> [key |-> key, iv |-> iv, pt |-> pt, ct |-> encrypted]])))))

\* decryptVaultItem(encryptedData, masterPassword) over the cipher's table orc
decryptVaultItem(encryptedData, masterPassword, orc) ==
  IF encryptedData.t \in {"null", "undefined"} THEN Throws("TypeError", "TypeError")
  ELSE
  With(base64ToArrayBuffer(ToStringJS(Get(encryptedData, KeySalt))), LAMBDA salt :
  With(base64ToArrayBuffer(ToStringJS(Get(encryptedData, KeyIv))), LAMBDA iv :
  With(base64ToArrayBuffer(ToStringJS(Get(encryptedData, KeyEncrypted))), LAMBDA encrypted :
    IF ~salt.ok \/ ~iv.ok \/ ~encrypted.ok THEN Throws("InvalidCharacterError", "InvalidCharacterError")
    ELSE
    With(deriveKey(masterPassword, salt.bytes), LAMBDA key :
    With(AesGcmOpen(key, iv.bytes, encrypted.bytes, orc), LAMBDA decrypted :
      IF ~decrypted.ok THEN Throws("OperationError", "OperationError")
      ELSE With(JSONParse(TextDecode(decrypted.pt)), LAMBDA parsed :
        IF ~parsed.ok THEN Throws("SyntaxError", "SyntaxError") ELSE Returns(parsed.v)))))))

\* ------------------------------------------------------------------- state
VARIABLES
  rngCount,   \* crypto.getRandomValues: the number of draws made so far
  oracle,     \* the ideal cipher's table: every (key, iv, pt, ct) sealed so far
  produced,   \* history: every encryptVaultItem call, with what it returned
  ret,        \* the call that has returned to the caller, with its outcome;
              \* NoCall once the caller has taken it and may call again
  exp,        \* the exportVaultData call in progress
  imp,        \* the importVaultData call in progress
  file,       \* the container text exportVaultData returned last, as saved
  user,            \* AuthContext: the signed-in user, Null if none
  token,           \* AuthContext: the session token, Null if none
  masterPassword,  \* AuthContext: the master password held in memory, Null if none
  localStorage,    \* the browser's localStorage entries token and user
  vaultItems,      \* VaultPage: the decrypted items on display
  sent,            \* history: every request the client has sent to the backend
  db,              \* backend: the VaultItem collection, in creation order
  handlers,        \* VaultPage: the calls of its handlers, in the order they began
  isLoading,       \* VaultPage: whether 'Loading your vault...' is shown
  users,           \* backend: the ids of the User collection
  foreign,            \* history: the blobs sealed outside encryptVaultItem
  now,                \* the time since the page loaded, in seconds
  clipboard,          \* the system clipboard: its text and the copy that wrote it
  timers,             \* the setTimeout callbacks that are pending
  copied,             \* the copied state of each component
  generatedPassword,  \* PasswordGenerator: the password on display
  copyLog,            \* history: every copy that reached the clipboard
  alerts              \* the number of alert boxes shown

cryptoVars == <<rngCount, oracle, produced, ret>>
bulkVars == <<exp, imp, file>>
appVars == <<user, token, masterPassword, localStorage, vaultItems, sent, db>>
uiVars == <<now, clipboard, timers, copied, generatedPassword, copyLog, alerts>>
asyncVars == <<handlers, isLoading, users>>
sideVars == <<foreign, uiVars, asyncVars>>
vars == <<cryptoVars, bulkVars, appVars, sideVars>>

\* ------------------------------------------------------------------ inputs
\* records: all fields empty; ASCII with a quote and a backslash, two- and
\* three-byte characters; a surrogate pair, an unpaired surrogate, control
\* characters
RecordEmpty == VaultItem(<<>>, <<>>, <<>>, <<>>, <<>>)
RecordBank == VaultItem(<<66, 97, 110, 107>>, <<97, 108, 105, 99, 101>>, <<97, 34, 92>>, <<233, 8364>>, <<>>)
RecordWide == VaultItem(<<55357, 56832>>, <<55296>>, <<10, 1, 34>>, <<>>, <<8364>>)
Records == {RecordEmpty, RecordBank, RecordWide}

\* master passwords, all non-empty: ASCII, non-ASCII, and two that end in
\* an unpaired surrogate (a high one, a low one)
PasswordA == <<112, 119>>
PasswordB == <<112, 233>>
PasswordHigh == <<112, 55296>>
PasswordLow == <<112, 56320>>
Passwords == {PasswordA, PasswordB, PasswordHigh, PasswordLow}
\* the master passwords records are encrypted under; decryption is tried
\* under every password
EncryptPasswords == {PasswordB, PasswordHigh}
\* the master passwords imports and single encryptions beside an export
\* are tried under, and the one exports are made under
BulkPasswords == {PasswordA, PasswordB}
ExportPasswords == {PasswordB}

NoCall == [op |-> "none", arg |-> Null, pw |-> <<>>, out |-> Returns(Null), trace |-> <<>>]
Call(op, arg, pw, out, trace) == [op |-> op, arg |-> arg, pw |-> pw, out |-> out, trace |-> trace]

\* text with its first code unit replaced by another base64 character
FlipFirst(text) ==
  IF text = <<>> THEN <<66>> ELSE [text EXCEPT ![1] = IF text[1] = 65 THEN 66 ELSE 65]

\* the index of the last code unit of text that is not = padding
LastData(text) ==
  IF text = <<>> THEN 0
  ELSE CHOOSE i \in 0..Len(text) : (i > 0 => text[i] # 61) /\ \A j \in (i + 1)..Len(text) : text[j] = 61

\* text with the lowest bit of its last base64 digit flipped
FlipLastBit(text) ==
  LET i == LastData(text)
      x == IF i = 0 THEN 0 ELSE SextetOf(text[i])
  IN IF i = 0 \/ x < 0 THEN text
     ELSE [text EXCEPT ![i] = Base64Alphabet[(IF x % 2 = 0 THEN x + 1 ELSE x - 1) + 1]]

\* text without its = padding
StripPadding(text) == SubSeq(text, 1, LastData(text))

\* text without its last four code units
Truncate(text) == IF Len(text) >= 4 THEN SubSeq(text, 1, Len(text) - 4) ELSE <<>>

\* the encrypted field of a blob
EncryptedText(blob) == ToStringJS(Get(blob, KeyEncrypted))

\* the values a stored blob's encrypted field may be changed to
TamperedTexts(text) ==
  {FlipFirst(text), FlipLastBit(text), StripPadding(text), Truncate(text)}
  \cup {ToStringJS(Get(produced[k].blob, KeyEncrypted)) : k \in DOMAIN produced}

WithEncrypted(blob, text) ==
  EncryptedData(text, ToStringJS(Get(blob, KeySalt)), ToStringJS(Get(blob, KeyIv)))

\* the blobs a decryption may be handed: those produced, and those with the
\* encrypted field changed
StoredBlobs ==
  {produced[k].blob : k \in DOMAIN produced}
  \cup UNION {{WithEncrypted(produced[k].blob, t) :
                  t \in TamperedTexts(ToStringJS(Get(produced[k].blob, KeyEncrypted)))} :
               k \in DOMAIN produced}

\* encryptions started and not yet finished by the export in progress
ExportPending == IF exp.phase = "running" THEN Cardinality({i \in DOMAIN exp.results : exp.results[i] = Undefined}) ELSE 0

\* ----------------------------------------------------------------- actions
ExpIdle == [phase |-> "idle", items |-> <<>>, pw |-> <<>>, draw |-> 0, results |-> <<>>]
ImpIdle == [phase |-> "idle", text |-> <<>>, pw |-> <<>>, items |-> <<>>, results |-> <<>>]
NoFile == [text |-> <<>>, items |-> <<>>, pw |-> <<>>]
Pending == [ok |-> FALSE, v |-> Null, err |-> "pending", cause |-> ""]
\* the backend's collection before any document is created
\* the components that copy to the clipboard: a VaultItemComponent for each
\* item on display, and the PasswordGenerator
ShownItems == <<RecordBank, RecordWide>>
Generator == Len(ShownItems) + 1
Components == DOMAIN ShownItems \cup {Generator}

\* the clipboard before any copy: no text, written by no copy
EmptyClipboard == [text |-> <<>>, by |-> 0]

NoDocuments == [items |-> <<>>, created |-> 0]
\* the accounts of the backend's User collection
Accounts == {<<97, 64, 120>>, <<98, 64, 120>>}

Init ==
  /\ rngCount = 0
  /\ oracle = {}
  /\ produced = <<>>
  /\ ret = NoCall
  /\ exp = ExpIdle
  /\ imp = ImpIdle
  /\ file = NoFile
  /\ user = Null
  /\ token = Null
  /\ masterPassword = Null
  /\ localStorage = [token |-> Null, user |-> Null]
  /\ vaultItems = <<>>
  /\ sent = {}
  /\ db = NoDocuments
  /\ handlers = <<>>
  /\ isLoading = TRUE
  /\ users = Accounts
  /\ foreign = <<>>
  /\ now = 0
  /\ clipboard = EmptyClipboard
  /\ timers = {}
  /\ copied = [c \in Components |-> FALSE]
  /\ generatedPassword = <<>>
  /\ copyLog = <<>>
  /\ alerts = 0

\* the history entry of an encryptVaultItem call that answered r
Produced(data, password, r) ==
  [data |-> data, pw |-> password, blob |-> r.blob, key |-> r.entry.key, iv |-> r.entry.iv]

\* one call of encryptVaultItem, from its draws to its return
Encrypt(data, password) ==
  /\ ret = NoCall
  /\ Len(produced) + ExportPending < MaxEnc
  /\ \E r \in {encryptVaultItem(data, password, rngCount, oracle)} :
        /\ rngCount' = rngCount + 2
        /\ oracle' = oracle \cup {r.entry}
        /\ produced' = Append(produced, Produced(data, password, r))
        /\ ret' = Call("encryptVaultItem", data, password, Returns(r.blob), <<>>)
  /\ UNCHANGED <<bulkVars, appVars, sideVars>>

\* one call of decryptVaultItem on a stored blob
Decrypt(encryptedData, password) ==
  /\ ret = NoCall
  /\ ret' = Call("decryptVaultItem", encryptedData, password,
                 decryptVaultItem(encryptedData, password, oracle), <<>>)
  /\ UNCHANGED <<rngCount, oracle, produced, bulkVars, appVars, sideVars>>

\* A blob made outside encryptVaultItem by a holder of the master password
\* (another client, an older version, a script) with the same primitives and
\* any plaintext bytes pt: what it stores and the entry the cipher adds
sealForeign(pt, password, draw, orc) ==
  With(getRandomValues(SaltLen, draw), LAMBDA salt :
  With(getRandomValues(IvLen, draw + 1), LAMBDA iv :
  With(deriveKey(password, salt), LAMBDA key :
  With(AesGcmSeal(key, iv, pt, orc), LAMBDA encrypted :
    [blob |-> EncryptedData(arrayBufferToBase64(encrypted), arrayBufferToBase64(salt),
                            arrayBufferToBase64(iv)),
     entry |-> [key |-> key, iv |-> iv, pt |-> pt, ct |-> encrypted]]))))

\* such a blob is made and stored
SealForeign(pt, password) ==
  /\ ret = NoCall
  /\ Len(foreign) < MaxEnc
  /\ \E r \in {sealForeign(pt, password, rngCount, oracle)} :
        /\ rngCount' = rngCount + 2
        /\ oracle' = oracle \cup {r.entry}
        /\ foreign' = Append(foreign, [pt |-> pt, pw |-> password, blob |-> r.blob])
  /\ UNCHANGED <<produced, ret, bulkVars, appVars, asyncVars, uiVars>>

\* one call of arrayBufferToBase64
Encode(bytes) ==
  /\ ret = NoCall
  /\ ret' = Call("arrayBufferToBase64", bytes, <<>>, Returns(JStr(arrayBufferToBase64(bytes))), <<>>)
  /\ UNCHANGED <<rngCount, oracle, produced, bulkVars, appVars, sideVars>>

\* one call of base64ToArrayBuffer on the text arrayBufferToBase64 has just
\* returned; the bytes that were encoded are kept with the call
Decode ==
  /\ ret.op = "arrayBufferToBase64"
  /\ \E r \in {base64ToArrayBuffer(ret.out.v.s)} :
       ret' = Call("base64ToArrayBuffer", ret.out.v, <<>>,
                   IF r.ok THEN Returns(r.bytes) ELSE Throws("InvalidCharacterError", "InvalidCharacterError"),
                   ret.arg)
  /\ UNCHANGED <<rngCount, oracle, produced, bulkVars, appVars, sideVars>>

\* the caller takes the outcome of the call that returned
Return ==
  /\ ret # NoCall
  /\ ret' = NoCall
  /\ UNCHANGED <<rngCount, oracle, produced, bulkVars, appVars, sideVars>>

\* ----------------------------------------------- crypto.ts: export / import
KeyVersion == <<118, 101, 114, 115, 105, 111, 110>>
KeyTimestamp == <<116, 105, 109, 101, 115, 116, 97, 109, 112>>
KeyItems == <<105, 116, 101, 109, 115>>

\* new Date().toISOString() at the instant of the call
toISOString == <<50, 48, 50, 54, 45, 48, 49, 45, 48, 49, 84, 48, 48, 58, 48, 48, 58, 48, 48, 46, 48, 48, 48, 90>>

\* a container that carries no version number
ExportDataUnversioned(items) ==
  JObj(<<KeyVersion, KeyTimestamp, KeyItems>>, <<JNum(0), JStr(toISOString), JArr(items)>>)

\* the exportData object literal
ExportData(items) ==
  JObj(<<KeyVersion, KeyTimestamp, KeyItems>>, <<JNum(ExportVersion), JStr(toISOString), JArr(items)>>)

ImportFailed == "Failed to import vault data. Check your master password."

\* exportVaultData up to its await: items.map has called encryptVaultItem on
\* every item, and each call has made its two draws, in item order
ExportStart(items, password) ==
  /\ ret = NoCall
  /\ exp.phase = "idle"
  /\ Len(produced) + Len(items) <= MaxEnc
  /\ exp' = [phase |-> "running", items |-> items, pw |-> password, draw |-> rngCount,
             results |-> [i \in DOMAIN items |-> Undefined]]
  /\ rngCount' = rngCount + 2 * Len(items)
  /\ UNCHANGED <<oracle, produced, ret, imp, file, appVars, sideVars>>

\* the first free place of the results array: results in completion order
ExportSlotFirstFree(results, i) ==
  CHOOSE n \in DOMAIN results : results[n] = Undefined /\ \A m \in 1..(n - 1) : results[m] # Undefined

\* the place in the results array that the promise of item i settles
ExportSlot(results, i) == i

\* the encryptVaultItem call of item i resolves
ExportItemDone(i) ==
  /\ exp.phase = "running"
  /\ i \in DOMAIN exp.results
  /\ exp.results[i] = Undefined
  /\ \E r \in {encryptVaultItem(exp.items[i], exp.pw, exp.draw + 2 * (i - 1), oracle)} :
        /\ oracle' = oracle \cup {r.entry}
        /\ produced' = Append(produced, Produced(exp.items[i], exp.pw, r))
        /\ exp' = [exp EXCEPT !.results[ExportSlot(exp.results, i)] = r.blob]
  /\ UNCHANGED <<rngCount, ret, imp, file, appVars, sideVars>>

\* the text exportVaultData returns for the blobs Promise.all resolved with
exportVaultData(blobs) == JSONStringifyIndent(ExportData(blobs), ExportIndent)

\* Promise.all has resolved: exportVaultData returns the container text
ExportFinish ==
  /\ ret = NoCall
  /\ exp.phase = "running"
  /\ \A i \in DOMAIN exp.results : exp.results[i] # Undefined
  /\ \E text \in {exportVaultData(exp.results)} :
        /\ ret' = Call("exportVaultData", JArr(exp.items), exp.pw, Returns(JStr(text)), <<>>)
        /\ file' = [text |-> text, items |-> exp.items, pw |-> exp.pw]
  /\ exp' = ExpIdle
  /\ UNCHANGED <<rngCount, oracle, produced, imp, appVars, sideVars>>

\* container c without key k
WithoutKey(c, k) ==
  LET keep == {i \in DOMAIN c.keys : c.keys[i] # k}
      idx == [j \in 1..Cardinality(keep) |-> CHOOSE i \in keep : Cardinality({m \in keep : m < i}) = j - 1]
  IN JObj([j \in DOMAIN idx |-> c.keys[idx[j]]], [j \in DOMAIN idx |-> c.vals[idx[j]]])

\* container c with the encrypted field of item k changed
WithCorruptItem(c, k) ==
  LET items == Get(c, KeyItems).a
      bad == WithEncrypted(items[k], FlipFirst(ToStringJS(Get(items[k], KeyEncrypted))))
  IN PutKey(c, KeyItems, JArr([items EXCEPT ![k] = bad]))

\* the texts importVaultData may be handed: the saved container as it is,
\* with one item corrupted, without version, without items; and a text that
\* is no container at all
ImportTexts ==
  {<<110, 117, 108, 108>>}
  \cup (IF file = NoFile THEN {}
        ELSE With(JSONParse(file.text).v, LAMBDA c :
               {file.text,
                JSONStringify(WithoutKey(c, KeyVersion)),
                JSONStringifyIndent(WithoutKey(c, KeyItems), ExportIndent)}
               \cup {JSONStringifyIndent(WithCorruptItem(c, k), ExportIndent) : k \in 1..Len(file.items)}))

\* importVaultData up to its await: the outcome when it throws before any
\* decryption starts, else the items whose decryptions have started
importVaultDataStart(exportedData) ==
  With(JSONParse(exportedData), LAMBDA parsed :
    IF ~parsed.ok THEN Throws(ImportFailed, "SyntaxError")
    ELSE With(parsed.v, LAMBDA data :
      IF data.t = "null" THEN Throws(ImportFailed, "TypeError")
      ELSE IF Falsy(Get(data, KeyVersion)) \/ Falsy(Get(data, KeyItems))
        THEN Throws(ImportFailed, "Invalid export file format")
      ELSE IF Get(data, KeyItems).t # "arr" THEN Throws(ImportFailed, "TypeError")
      ELSE Returns(Get(data, KeyItems))))

ImportStart(exportedData, password) ==
  /\ ret = NoCall
  /\ imp.phase = "idle"
  /\ \E r \in {importVaultDataStart(exportedData)} :
        IF r.ok
        THEN /\ imp' = [phase |-> "running", text |-> exportedData, pw |-> password, items |-> r.v.a,
                        results |-> [i \in DOMAIN r.v.a |-> Pending]]
             /\ ret' = ret
        ELSE /\ ret' = Call("importVaultData", JStr(exportedData), password, r, <<>>)
             /\ imp' = imp
  /\ UNCHANGED <<rngCount, oracle, produced, exp, file, appVars, sideVars>>

\* the place in the results array that the promise of item i settles
ImportSlot(results, i) == i

\* the decryptVaultItem call of item i settles (resolves or rejects)
ImportItemDone(i) ==
  /\ imp.phase = "running"
  /\ i \in DOMAIN imp.results
  /\ imp.results[i] = Pending
  /\ imp' = [imp EXCEPT !.results[ImportSlot(imp.results, i)] = decryptVaultItem(imp.items[i], imp.pw, oracle)]
  /\ UNCHANGED <<cryptoVars, exp, file, appVars, sideVars>>

\* a promise that has rejected
Rejected(r) == ~r.ok /\ r # Pending

\* an import that answers with the values of the promises that fulfilled
importVaultDataSettleFulfilled(results) ==
  Returns(JArr(SelectSeq([i \in DOMAIN results |-> results[i].v], LAMBDA v : v # Null)))

\* what importVaultData answers once Promise.all has settled on results:
\* it rejects as soon as one promise has, and the catch block rethrows;
\* it resolves with every value, in the order of the promises, once all have
importVaultDataSettle(results) ==
  IF \E i \in DOMAIN results : Rejected(results[i])
  THEN Throws(ImportFailed, results[CHOOSE i \in DOMAIN results : Rejected(results[i])].cause)
  ELSE Returns(JArr([i \in DOMAIN results |-> results[i].v]))

\* Promise.all settles: rejected once any item has been, resolved once every
\* item has; importVaultData returns or throws
ImportSettle ==
  /\ imp.phase = "running"
  /\ \/ \E i \in DOMAIN imp.results : Rejected(imp.results[i])
     \/ \A i \in DOMAIN imp.results : imp.results[i].ok
  /\ ret' = Call("importVaultData", JStr(imp.text), imp.pw, importVaultDataSettle(imp.results), imp.results)
  /\ imp' = ImpIdle
  /\ UNCHANGED <<rngCount, oracle, produced, exp, file, appVars, sideVars>>

\* ------------------------------------------------ backend: vaultController
KeyEmail == <<101, 109, 97, 105, 108>>
KeyEncryptedData == <<101, 110, 99, 114, 121, 112, 116, 101, 100, 68, 97, 116, 97>>
KeyId == <<105, 100>>
KeyUnderscoreId == <<95, 105, 100>>
Bearer == <<66, 101, 97, 114, 101, 114>>

\* process.env.JWT_SECRET, and a secret that is not it
JwtSecret == "JWT_SECRET"
OtherSecret == "other"

\* a JSON Web Token: its payload's userId and exp, and the secret it is
\* signed with
Jwt(userId, expiry, key) == [t |-> "jwt", userId |-> userId, exp |-> expiry, key |-> key]

\* jwt.verify(token, secret) at time: the payload, or the error thrown
JwtVerify(jwt, secret, time) ==
  IF jwt.t # "jwt" \/ jwt.key # secret THEN Throws("JsonWebTokenError", "JsonWebTokenError")
  ELSE IF jwt.exp <= time THEN Throws("TokenExpiredError", "TokenExpiredError")
  ELSE Returns(jwt)

\* an Authorization header as the words header.split(' ') gives: the
\* first is text, the others are tokens or text; Undefined when the request
\* has no such header
Authorization(words) == [t |-> "header", words |-> words]

\* req.headers.authorization?.startsWith('Bearer')
StartsWithBearer(authorization) ==
  /\ authorization.t = "header"
  /\ Len(authorization.words[1]) >= Len(Bearer)
  /\ SubSeq(authorization.words[1], 1, Len(Bearer)) = Bearer

\* what the backend answers: the status, and the documents of data.items
\* or data.item (none in an answer without data)
Response(status, data) == [status |-> status, data |-> data]

\* a middleware that takes the token's word for its user
protectUnchecked(authorization, accounts, time) ==
  With(IF StartsWithBearer(authorization) /\ Len(authorization.words) >= 2
       THEN authorization.words[2] ELSE Undefined, LAMBDA bearer :
    IF Falsy(bearer) \/ bearer.t # "jwt" THEN [next |-> FALSE, user |-> <<>>, res |-> Response(401, <<>>)]
    ELSE [next |-> TRUE, user |-> bearer.userId, res |-> Response(0, <<>>)])

\* protect: the user attached to the request when next() is called, or the
\* response sent instead
protect(authorization, accounts, time) ==
  With(IF StartsWithBearer(authorization) /\ Len(authorization.words) >= 2
       THEN authorization.words[2] ELSE Undefined, LAMBDA bearer :
    IF Falsy(bearer) THEN [next |-> FALSE, user |-> <<>>, res |-> Response(401, <<>>)]
    ELSE With(JwtVerify(bearer, JwtSecret, time), LAMBDA decoded :
      IF ~decoded.ok THEN [next |-> FALSE, user |-> <<>>, res |-> Response(401, <<>>)]
      ELSE IF decoded.v.userId \notin accounts THEN [next |-> FALSE, user |-> <<>>, res |-> Response(401, <<>>)]
      ELSE [next |-> TRUE, user |-> decoded.v.userId, res |-> Response(0, <<>>)]))

\* errorHandler: the status answered for an error handed to next(error)
errorHandler(name) == IF name \in {"ValidationError", "CastError"} THEN 400 ELSE 500

\* a validation that does not look at iv
ValidEncryptedDataWithoutIv(body) ==
  \E encryptedData \in {Get(body, KeyEncryptedData)} :
    /\ ~Falsy(encryptedData)
    /\ ~Falsy(Get(encryptedData, KeyEncrypted))
    /\ ~Falsy(Get(encryptedData, KeySalt))

\* the validation createVaultItem and updateVaultItem apply to req.body
ValidEncryptedData(body) ==
  \E encryptedData \in {Get(body, KeyEncryptedData)} :
    /\ ~Falsy(encryptedData)
    /\ ~Falsy(Get(encryptedData, KeyEncrypted))
    /\ ~Falsy(Get(encryptedData, KeySalt))
    /\ ~Falsy(Get(encryptedData, KeyIv))

\* mongoose's cast of a value to the schema type String: Null where it
\* throws CastError
CastString(v) ==
  CASE v.t = "str" -> v
    [] v.t \in {"num", "bool"} -> JStr(ToStringJS(v))
    [] v.t = "obj" /\ Get(v, KeyUnderscoreId).t = "str" /\ ~Falsy(Get(v, KeyUnderscoreId)) ->
         Get(v, KeyUnderscoreId)
    [] OTHER -> Null

\* VaultItemSchema's cast of encryptedData: its three paths cast to String
\* and every other key dropped; Null where a cast throws
CastEncryptedData(encryptedData) ==
  With(<<CastString(Get(encryptedData, KeyEncrypted)), CastString(Get(encryptedData, KeySalt)),
         CastString(Get(encryptedData, KeyIv))>>, LAMBDA cast :
    IF Null \in Range(cast) THEN Null ELSE JObj(<<KeyEncrypted, KeySalt, KeyIv>>, cast))

\* whether id casts to an ObjectId: the ids of this collection are decimal
\* numerals
IsObjectId(id) == id # <<>> /\ \A i \in DOMAIN id : IsDigit(id[i])

\* a query that matches on _id alone
MatchingId(userId, id, docs) == {i \in DOMAIN docs.items : docs.items[i].id = id}

\* the documents of docs that match { _id: id, userId }
Matching(userId, id, docs) == {i \in DOMAIN docs.items : docs.items[i].id = id /\ docs.items[i].userId = userId}

\* what a controller does: the response and the collection afterwards
Handled(status, data, docs) == [res |-> Response(status, data), docs |-> docs]

\* createVaultItem: POST /vault by userId with body on the collection docs
createVaultItem(userId, body, docs) ==
  IF ~ValidEncryptedData(body) THEN Handled(400, <<>>, docs)
  ELSE With(CastEncryptedData(Get(body, KeyEncryptedData)), LAMBDA encryptedData :
    IF encryptedData = Null THEN Handled(errorHandler("ValidationError"), <<>>, docs)
    ELSE With([id |-> NumberToText(docs.created + 1), userId |-> userId, encryptedData |-> encryptedData],
              LAMBDA vaultItem :
           Handled(201, <<vaultItem>>, [items |-> Append(docs.items, vaultItem), created |-> docs.created + 1])))

\* s in reverse order
Reverse(s) == [i \in DOMAIN s |-> s[Len(s) + 1 - i]]

\* getVaultItems: GET /vault by userId: the documents of userId, newest first
getVaultItems(userId, docs) ==
  Handled(200, Reverse(SelectSeq(docs.items, LAMBDA d : d.userId = userId)), docs)

\* getVaultItem: GET /vault/:id by userId
getVaultItem(userId, id, docs) ==
  IF ~IsObjectId(id) THEN Handled(errorHandler("CastError"), <<>>, docs)
  ELSE IF Matching(userId, id, docs) = {} THEN Handled(404, <<>>, docs)
  ELSE Handled(200, <<docs.items[CHOOSE i \in Matching(userId, id, docs) : TRUE]>>, docs)

\* updateVaultItem: PUT /vault/:id by userId with body
updateVaultItem(userId, id, body, docs) ==
  IF ~ValidEncryptedData(body) THEN Handled(400, <<>>, docs)
  ELSE With(CastEncryptedData(Get(body, KeyEncryptedData)), LAMBDA encryptedData :
    IF ~IsObjectId(id) \/ encryptedData = Null THEN Handled(errorHandler("CastError"), <<>>, docs)
    ELSE IF Matching(userId, id, docs) = {} THEN Handled(404, <<>>, docs)
    ELSE With(CHOOSE i \in Matching(userId, id, docs) : TRUE, LAMBDA i :
           With([docs EXCEPT !.items[i].encryptedData = encryptedData], LAMBDA updated :
             Handled(200, <<updated.items[i]>>, updated))))

\* deleteVaultItem: DELETE /vault/:id by userId
deleteVaultItem(userId, id, docs) ==
  IF ~IsObjectId(id) THEN Handled(errorHandler("CastError"), <<>>, docs)
  ELSE IF Matching(userId, id, docs) = {} THEN Handled(404, <<>>, docs)
  ELSE Handled(200, <<>>,
               [docs EXCEPT !.items = SelectSeq(docs.items, LAMBDA d : ~(d.id = id /\ d.userId = userId))])

\* deleteAllVaultItems: DELETE /vault by userId
deleteAllVaultItems(userId, docs) ==
  Handled(200, <<>>, [docs EXCEPT !.items = SelectSeq(docs.items, LAMBDA d : d.userId # userId)])

\* a request as it reaches the backend: method, route, the :id of the
\* route, the JSON body (Undefined where there is none) and the
\* Authorization header
Request(method, path, id, body, authorization) ==
  [method |-> method, path |-> path, id |-> id, body |-> body, authorization |-> authorization]

\* the vault router: protect, then the controller of the route
vaultRoutes(req, accounts, time, docs) ==
  With(protect(req.authorization, accounts, time), LAMBDA auth :
    IF ~auth.next THEN [res |-> auth.res, docs |-> docs, next |-> FALSE]
    ELSE With(
      CASE req.path = "/vault" /\ req.method = "GET" -> getVaultItems(auth.user, docs)
        [] req.path = "/vault" /\ req.method = "POST" -> createVaultItem(auth.user, req.body, docs)
        [] req.path = "/vault" /\ req.method = "DELETE" -> deleteAllVaultItems(auth.user, docs)
        [] req.path = "/vault/:id" /\ req.method = "GET" -> getVaultItem(auth.user, ToStringJS(req.id), docs)
        [] req.path = "/vault/:id" /\ req.method = "PUT" ->
             updateVaultItem(auth.user, ToStringJS(req.id), req.body, docs)
        [] req.path = "/vault/:id" /\ req.method = "DELETE" ->
             deleteVaultItem(auth.user, ToStringJS(req.id), docs)
        [] OTHER -> Handled(404, <<>>, docs),
      LAMBDA handled : [res |-> handled.res, docs |-> handled.docs, next |-> TRUE]))

\* ------------------------------------------ frontend: AuthContext, VaultPage
\* accounts and the passwords typed at signup and login (twelve characters
\* with a lower-case and an upper-case letter, a digit and a symbol)
EmailA == <<97, 64, 120>>
EmailB == <<98, 64, 120>>
Emails == {EmailA, EmailB}
AccountPasswordA == <<65, 97, 49, 33, 97, 97, 97, 97, 97, 97, 97, 97>>
AccountPasswordB == <<66, 98, 50, 63, 98, 98, 98, 98, 98, 98, 98, 233>>
\* the password the holder of an account types
AccountPassword(email) == IF email = EmailA THEN AccountPasswordA ELSE AccountPasswordB

\* the token the backend issues at signup and login: it outlives the
\* behaviours modelled
IssuedToken(email) == Jwt(email, MaxTime + 1, JwtSecret)

\* api's request interceptor: the Authorization header of a request sent
\* while the browser's storage is storage
Interceptor(storage) ==
  IF storage.token = Null THEN Undefined ELSE Authorization(<<Bearer, storage.token>>)

\* the object literal { email, password } handed to authAPI
Credentials(email, password) == JObj(<<KeyEmail, KeyPassword>>, <<JStr(email), JStr(password)>>)

\* the object literal { encryptedData: encrypted } handed to vaultAPI
CreateVaultItemData(encrypted) == JObj(<<KeyEncryptedData>>, <<encrypted>>)

\* the number of signup and login requests sent so far
AuthRequests == Cardinality({r \in sent : r.path \in {"/auth/signup", "/auth/login"}})

\* the request of vaultAPI.getAll
GetAll(storage) == Request("GET", "/vault", Null, Undefined, Interceptor(storage))

\* a call of a handler of the vault page that is at an await: the handler;
\* the await it is at (write: the create, update or delete request; fetch:
\* the getAll request of fetchVaultItems); the masterPassword of the render
\* it closes over; the request awaited and, once answered, its response
\* and whether protect called next() for it; whether the page that made the call is still mounted, has been
\* unmounted, or has been unloaded with its script
Handler(handler, at, password, req) ==
  [handler |-> handler, at |-> at, masterPassword |-> password, req |-> req, answered |-> FALSE,
   res |-> Response(0, <<>>), next |-> FALSE, page |-> "mounted"]

\* s without its element k
Remove(s, k) == SubSeq(s, 1, k - 1) \o SubSeq(s, k + 1, Len(s))

\* the calls after the page that made them is unmounted: their promises
\* run on
Unmounted(calls) ==
  [k \in DOMAIN calls |-> IF calls[k].page = "mounted" THEN [calls[k] EXCEPT !.page = "unmounted"] ELSE calls[k]]

\* the calls after the page is unloaded: the script is gone, and what is
\* left of a call is its request or response on the way
Unloaded(calls) ==
  [k \in DOMAIN calls |->
     IF calls[k].page \in {"mounted", "unmounted"} THEN [calls[k] EXCEPT !.page = "unloaded"] ELSE calls[k]]

\* fetchVaultItems up to its await: the call that awaits vaultAPI.getAll
fetchVaultItems(password, storage) == Handler("fetchVaultItems", "fetch", password, GetAll(storage))

\* login and signup: POST the credentials; when the backend answers with a
\* token and user, store both, keep the password as the master password and
\* open the vault page, whose effect calls fetchVaultItems; when it
\* refuses, throw and keep everything as it was
Authenticate(path, email, password, accepted) ==
  /\ \E req \in {Request("POST", path, Null, Credentials(email, password), Interceptor(localStorage))} :
       IF accepted
       THEN \E storage \in {[token |-> IssuedToken(email), user |-> [id |-> email, email |-> email]]} :
              /\ localStorage' = storage
              /\ token' = storage.token
              /\ user' = storage.user
              /\ Len(handlers) < MaxHandlers
              /\ masterPassword' = JStr(password)
              /\ vaultItems' = <<>>
              /\ isLoading' = TRUE
              /\ handlers' = Append(Unmounted(handlers),
                                    fetchVaultItems(JStr(password), storage))
              /\ sent' = sent \cup {req, GetAll(storage)}
       ELSE /\ sent' = sent \cup {req}
            /\ UNCHANGED <<localStorage, token, user, masterPassword, vaultItems, isLoading, handlers>>
  /\ UNCHANGED <<cryptoVars, bulkVars, db, users, foreign, uiVars>>

login(email, password, accepted) == Authenticate("/auth/login", email, password, accepted)
signup(email, password, accepted) == Authenticate("/auth/signup", email, password, accepted)

\* a logout that leaves the master password in memory
logoutKeepingPassword ==
  /\ user # Null
  /\ localStorage' = [token |-> Null, user |-> Null]
  /\ token' = Null
  /\ user' = Null
  /\ vaultItems' = <<>>
  /\ isLoading' = TRUE
  /\ handlers' = Unmounted(handlers)
  /\ UNCHANGED <<cryptoVars, bulkVars, masterPassword, sent, db, users, foreign, uiVars>>

\* logout: the session is forgotten and the login page replaces the vault
\* page
logout ==
  /\ user # Null
  /\ localStorage' = [token |-> Null, user |-> Null]
  /\ token' = Null
  /\ user' = Null
  /\ masterPassword' = Null
  /\ vaultItems' = <<>>
  /\ isLoading' = TRUE
  /\ handlers' = Unmounted(handlers)
  /\ UNCHANGED <<cryptoVars, bulkVars, sent, db, users, foreign, uiVars>>

\* the page is loaded again: the script's state is gone, and the effect of
\* AuthProvider restores token and user from localStorage when both are
\* there; the effect of the vault page fetches when there is a user and a
\* master password
Reload ==
  /\ \E stored \in {localStorage.token # Null /\ localStorage.user # Null} :
       /\ token' = IF stored THEN localStorage.token ELSE Null
       /\ user' = IF stored THEN localStorage.user ELSE Null
  /\ masterPassword' = Null
  /\ vaultItems' = <<>>
  /\ isLoading' = TRUE
  /\ handlers' = Unloaded(handlers)
  /\ UNCHANGED <<cryptoVars, bulkVars, localStorage, sent, db, users, foreign, uiVars>>

\* a listing that stops at the first item that fails to decrypt
DisplayedUntilFailure(documents, password, orc) ==
  [i \in 1..Cardinality({m \in DOMAIN documents :
                           \A j \in 1..m : decryptVaultItem(documents[j].encryptedData, password, orc).ok}) |->
     PutKey(decryptVaultItem(documents[i].encryptedData, password, orc).v, KeyId, JStr(documents[i].id))]

\* the items fetchVaultItems puts on display for the documents the backend
\* answered with: each decrypted under password, given its id, and left out
\* when its decryption fails
Displayed(documents, password, orc) ==
  SelectSeq([i \in DOMAIN documents |->
               With(decryptVaultItem(documents[i].encryptedData, password, orc), LAMBDA decrypted :
                 IF decrypted.ok THEN PutKey(decrypted.v, KeyId, JStr(documents[i].id)) ELSE Null)],
            LAMBDA item : item # Null)

\* the vault page is rendered for a signed-in user
VaultPageShown == user # Null

\* handleAddItem up to its second await: encrypt, POST /vault
handleAddItem(item) ==
  /\ VaultPageShown
  /\ Len(handlers) < MaxHandlers
  /\ Len(produced) < MaxEnc
  /\ \E r \in {encryptVaultItem(item, ToStringJS(masterPassword), rngCount, oracle)} :
       \E req \in {Request("POST", "/vault", Null, CreateVaultItemData(r.blob), Interceptor(localStorage))} :
         /\ rngCount' = rngCount + 2
         /\ oracle' = oracle \cup {r.entry}
         /\ produced' = Append(produced, Produced(item, ToStringJS(masterPassword), r))
         /\ sent' = sent \cup {req}
         /\ handlers' = Append(handlers, Handler("handleAddItem", "write", masterPassword, req))
  /\ UNCHANGED <<ret, bulkVars, user, token, masterPassword, localStorage, vaultItems, db, isLoading, users, foreign, uiVars>>

\* handleUpdateItem for the displayed item being edited, up to its second
\* await: encrypt, PUT /vault/:id
handleUpdateItem(editingItem, item) ==
  /\ VaultPageShown
  /\ Len(handlers) < MaxHandlers
  /\ editingItem \in Range(vaultItems)
  /\ Len(produced) < MaxEnc
  /\ \E r \in {encryptVaultItem(item, ToStringJS(masterPassword), rngCount, oracle)} :
       \E req \in {Request("PUT", "/vault/:id", Get(editingItem, KeyId), CreateVaultItemData(r.blob),
                            Interceptor(localStorage))} :
         /\ rngCount' = rngCount + 2
         /\ oracle' = oracle \cup {r.entry}
         /\ produced' = Append(produced, Produced(item, ToStringJS(masterPassword), r))
         /\ sent' = sent \cup {req}
         /\ handlers' = Append(handlers, Handler("handleUpdateItem", "write", masterPassword, req))
  /\ UNCHANGED <<ret, bulkVars, user, token, masterPassword, localStorage, vaultItems, db, isLoading, users, foreign, uiVars>>

\* handleDeleteItem for an item on display, once confirmed, up to its
\* await: DELETE /vault/:id
handleDeleteItem(id) ==
  /\ VaultPageShown
  /\ Len(handlers) < MaxHandlers
  /\ ~isLoading
  /\ \E shown \in Range(vaultItems) : Get(shown, KeyId) = id
  /\ \E req \in {Request("DELETE", "/vault/:id", id, Undefined, Interceptor(localStorage))} :
       /\ sent' = sent \cup {req}
       /\ handlers' = Append(handlers, Handler("handleDeleteItem", "write", masterPassword, req))
  /\ UNCHANGED <<cryptoVars, bulkVars, user, token, masterPassword, localStorage, vaultItems, db, isLoading,
                 users, foreign, uiVars>>

\* the backend receives the request call k awaits and answers it
Serve(k) ==
  /\ k \in DOMAIN handlers
  /\ ~handlers[k].answered
  /\ \E handled \in {vaultRoutes(handlers[k].req, users, now, db)} :
       /\ db' = handled.docs
       /\ handlers' = IF handlers[k].page = "unloaded" THEN Remove(handlers, k)
                      ELSE [handlers EXCEPT ![k].answered = TRUE, ![k].res = handled.res, ![k].next = handled.next]
  /\ UNCHANGED <<cryptoVars, bulkVars, user, token, masterPassword, localStorage, vaultItems, sent, isLoading,
                 users, foreign, uiVars>>

\* the request call k awaits fails without a response: the promise is
\* rejected, the catch of the handler runs and, in fetchVaultItems, the
\* finally
NetworkError(k) ==
  /\ k \in DOMAIN handlers
  /\ ~handlers[k].answered
  /\ handlers' = Remove(handlers, k)
  /\ isLoading' = IF handlers[k].page = "mounted" /\ handlers[k].at = "fetch" THEN FALSE ELSE isLoading
  /\ UNCHANGED <<cryptoVars, bulkVars, appVars, users, foreign, uiVars>>

\* whether axios resolves the promise of a response
Resolved(res) == res.status >= 200 /\ res.status < 300

\* call k resumes after its await with the response to its request
Resume(k) ==
  /\ k \in DOMAIN handlers
  /\ handlers[k].answered
  /\ handlers[k].page # "elsewhere"
  /\ \E call \in {handlers[k]} :
       CASE call.page = "unloaded" ->
              \* the response reaches a page that is gone
              /\ handlers' = Remove(handlers, k)
              /\ UNCHANGED <<user, token, masterPassword, localStorage, vaultItems, sent, isLoading>>
         [] call.page # "unloaded" /\ call.res.status = 401 ->
              \* api's response interceptor: forget the session and load
              \* the login page
              /\ localStorage' = [token |-> Null, user |-> Null]
              /\ token' = Null
              /\ user' = Null
              /\ masterPassword' = Null
              /\ vaultItems' = <<>>
              /\ isLoading' = TRUE
              /\ handlers' = Unloaded(Remove(handlers, k))
              /\ UNCHANGED sent
         [] call.page # "unloaded" /\ call.res.status # 401 /\ call.at = "write" /\ Resolved(call.res) ->
              \* the write is done: fetchVaultItems, up to its await
              /\ handlers' = [handlers EXCEPT ![k].at = "fetch", ![k].answered = FALSE,
                                               ![k].res = Response(0, <<>>), ![k].next = FALSE,
                                               ![k].req = GetAll(localStorage)]
              /\ sent' = sent \cup {GetAll(localStorage)}
              /\ isLoading' = IF call.page = "mounted" THEN TRUE ELSE isLoading
              /\ UNCHANGED <<user, token, masterPassword, localStorage, vaultItems>>
         [] call.page # "unloaded" /\ call.res.status # 401 /\ call.at = "write" /\ ~Resolved(call.res) ->
              \* the handler's catch
              /\ handlers' = Remove(handlers, k)
              /\ UNCHANGED <<user, token, masterPassword, localStorage, vaultItems, sent, isLoading>>
         [] call.page # "unloaded" /\ call.res.status # 401 /\ call.at = "fetch" /\ Resolved(call.res) ->
              \* the rest of fetchVaultItems: decrypt, show, finally
              /\ handlers' = Remove(handlers, k)
              /\ vaultItems' = IF call.page = "mounted"
                               THEN Displayed(call.res.data, ToStringJS(call.masterPassword), oracle)
                               ELSE vaultItems
              /\ isLoading' = IF call.page = "mounted" THEN FALSE ELSE isLoading
              /\ UNCHANGED <<user, token, masterPassword, localStorage, sent>>
         [] call.page # "unloaded" /\ call.res.status # 401 /\ call.at = "fetch" /\ ~Resolved(call.res) ->
              \* the catch and finally of fetchVaultItems
              /\ handlers' = Remove(handlers, k)
              /\ isLoading' = IF call.page = "mounted" THEN FALSE ELSE isLoading
              /\ UNCHANGED <<user, token, masterPassword, localStorage, vaultItems, sent>>
  /\ UNCHANGED <<cryptoVars, bulkVars, db, users, foreign, uiVars>>

\* a client other than the page sends req
Send(req) ==
  /\ Len(handlers) < MaxHandlers
  /\ req.method = "POST" => db.created + Cardinality({k \in DOMAIN handlers : handlers[k].req.method = "POST"}) < MaxItems
  /\ handlers' = Append(handlers, [Handler("", "write", Null, req) EXCEPT !.page = "elsewhere"])
  /\ UNCHANGED <<cryptoVars, bulkVars, appVars, isLoading, users, foreign, uiVars>>

\* that client takes the response
Receive(k) ==
  /\ k \in DOMAIN handlers
  /\ handlers[k].answered /\ handlers[k].page = "elsewhere"
  /\ handlers' = Remove(handlers, k)
  /\ UNCHANGED <<cryptoVars, bulkVars, appVars, isLoading, users, foreign, uiVars>>

\* the account of userId is deleted from the User collection
RemoveUser(userId) ==
  /\ userId \in users
  /\ users' = users \ {userId}
  /\ UNCHANGED <<cryptoVars, bulkVars, appVars, handlers, isLoading, foreign, uiVars>>

\* ------------------------------------- crypto.ts: generateSecurePassword
lowercase == [i \in 1..26 |-> 96 + i]
uppercase == [i \in 1..26 |-> 64 + i]
numbers == [i \in 1..10 |-> 47 + i]
\* !@#$%^&*()_+-=[]{}|;:,.<>?
symbols == <<33, 64, 35, 36, 37, 94, 38, 42, 40, 41, 95, 43, 45, 61, 91, 93, 123, 125, 124, 59, 58, 44, 46, 60, 62, 63>>
\* il1Lo0O
ambiguous == <<105, 108, 49, 76, 111, 48, 79>>

\* the length PasswordGenerator starts with
GeneratorLength == 16

\* a PasswordOptions object
PasswordOptions(length, includeNumbers, includeSymbols, excludeAmbiguous) ==
  [t |-> "options", length |-> length, includeNumbers |-> includeNumbers,
   includeSymbols |-> includeSymbols, excludeAmbiguous |-> excludeAmbiguous]

\* a character set with the digits and the symbols in it whatever is asked
CharsetOfAll(options) == lowercase \o uppercase \o numbers \o symbols

\* a character set with neither letters, digits nor symbols unless asked
CharsetOptionalOnly(options) ==
  (IF options.includeNumbers THEN numbers ELSE <<>>) \o (IF options.includeSymbols THEN symbols ELSE <<>>)

\* the character set with the ambiguous characters left in whatever is asked
CharsetUnfiltered(options) ==
  lowercase \o uppercase \o (IF options.includeNumbers THEN numbers ELSE <<>>)
  \o (IF options.includeSymbols THEN symbols ELSE <<>>)

\* the character set generateSecurePassword builds from its options
Charset(options) ==
  With(lowercase \o uppercase \o (IF options.includeNumbers THEN numbers ELSE <<>>)
       \o (IF options.includeSymbols THEN symbols ELSE <<>>), LAMBDA charset :
    IF options.excludeAmbiguous THEN SelectSeq(charset, LAMBDA c : c \notin Range(ambiguous)) ELSE charset)

\* an element of a Uint32Array, kept as its two 16-bit halves
Uint32(hi, lo) == [hi |-> hi, lo |-> lo]

\* word % n for a Uint32 word and 0 < n < 2^15
Uint32Mod(word, n) == (((word.hi % n) * (65536 % n)) + (word.lo % n)) % n

\* the most bytes crypto.getRandomValues fills in one call; it throws
\* QuotaExceededError for a longer array
QuotaBytes == 65536
BytesPerElement == 4

\* what password += charset[word % charset.length] appends: one character,
\* or the text of undefined where the charset is empty (word % 0 is NaN)
CharsetAt(charset, word) ==
  IF Len(charset) = 0 THEN ToStringJS(Undefined)
  ELSE <<charset[Uint32Mod(word, Len(charset)) + 1]>>

\* generateSecurePassword(options) when crypto.getRandomValues fills the
\* Uint32Array with randomValues
generateSecurePassword(options, randomValues) ==
  IF options.length * BytesPerElement > QuotaBytes THEN Throws("QuotaExceededError", "QuotaExceededError")
  ELSE With(Charset(options), LAMBDA charset :
         Returns(JStr(Concat([i \in 1..options.length |-> CharsetAt(charset, randomValues[i])]))))

\* one call of generateSecurePassword
Generate(options, randomValues) ==
  /\ ret = NoCall
  /\ ret' = Call("generateSecurePassword", options, <<>>, generateSecurePassword(options, randomValues),
                 randomValues)
  /\ UNCHANGED <<rngCount, oracle, produced, bulkVars, appVars, sideVars>>

\* the random words of the generator runs: the least and the greatest
\* Uint32, a word that selects i where the ambiguous characters are left in,
\* and words that select late places of every character set
RandomWords ==
  {Uint32(0, 0), Uint32(0, 1), Uint32(0, 8), Uint32(0, 61), Uint32(32768, 57), Uint32(65535, 65535)}

\* the lengths asked for: 1..MaxPwLen, and the first one too long for a
\* single getRandomValues call
GenerateAny ==
  \E includeNumbers \in BOOLEAN, includeSymbols \in BOOLEAN, excludeAmbiguous \in BOOLEAN :
    \/ \E length \in 1..MaxPwLen : \E randomValues \in [1..length -> RandomWords] :
         Generate(PasswordOptions(length, includeNumbers, includeSymbols, excludeAmbiguous), randomValues)
    \/ Generate(PasswordOptions((QuotaBytes \div BytesPerElement) + 1, includeNumbers, includeSymbols,
                                excludeAmbiguous), <<>>)

\* ------------------------------- VaultItem.tsx, PasswordGenerator.tsx: copy
\* the delays of the two components' setTimeout calls, in seconds
VaultClearDelay == 15000 \div 1000
VaultCopiedDelay == 15000 \div 1000
GeneratorClearDelay == 12000 \div 1000
GeneratorCopiedDelay == 12000 \div 1000

\* a pending setTimeout callback: the clipboard clear armed by copy number
\* copy, or the setCopied(false) of component of
Timer(kind, of, copy, due) == [kind |-> kind, of |-> of, copy |-> copy, due |-> due]

\* the history entry of a copy that reached the clipboard
Copy(of, text, delay) ==
  [of |-> of, text |-> text, at |-> now, delay |-> delay, attempted |-> FALSE, failed |-> FALSE,
   clearedAt |-> 0 - 1]

\* timers that leave the clipboard alone
VaultTimersCopiedOnly(i, k) ==
  IF copied[i] THEN {} ELSE {Timer("copied", i, 0, now + VaultCopiedDelay)}

\* the timers a fulfilled copy of VaultItemComponent i arms: the clipboard
\* clear of handleCopy, and the setCopied(false) of the effect that runs when
\* copied turns true
VaultTimers(i, k) ==
  {Timer("clear", i, k, now + VaultClearDelay)}
  \cup (IF copied[i] THEN {} ELSE {Timer("copied", i, 0, now + VaultCopiedDelay)})

\* VaultItemComponent i: handleCopy, with the outcome of its clipboard write
VaultCopy(i, fulfilled) ==
  /\ Len(copyLog) + alerts < MaxCopies
  /\ now + VaultClearDelay <= MaxTime
  /\ IF fulfilled
     THEN \E k \in {Len(copyLog) + 1} :
            /\ clipboard' = [text |-> Get(ShownItems[i], KeyPassword).s, by |-> k]
            /\ copyLog' = Append(copyLog, Copy(i, Get(ShownItems[i], KeyPassword).s, VaultClearDelay))
            /\ copied' = [copied EXCEPT ![i] = TRUE]
            /\ timers' = timers \cup VaultTimers(i, k)
            /\ UNCHANGED alerts
     ELSE /\ alerts' = alerts + 1
          /\ UNCHANGED <<clipboard, copyLog, copied, timers>>
  /\ UNCHANGED <<cryptoVars, bulkVars, appVars, asyncVars, foreign, now, generatedPassword>>

\* PasswordGenerator: handleGenerate with the defaults of its controls
handleGenerate(randomValues) ==
  /\ generatedPassword' =
       generateSecurePassword(PasswordOptions(GeneratorLength, TRUE, TRUE, TRUE), randomValues).v.s
  /\ generatedPassword' # generatedPassword
  /\ copied' = [copied EXCEPT ![Generator] = FALSE]
  /\ UNCHANGED <<cryptoVars, bulkVars, appVars, asyncVars, foreign, now, clipboard, timers, copyLog, alerts>>

\* PasswordGenerator: handleCopy, offered once a password is on display
GeneratorCopy(fulfilled) ==
  /\ generatedPassword # <<>>
  /\ Len(copyLog) + alerts < MaxCopies
  /\ now + GeneratorClearDelay <= MaxTime
  /\ IF fulfilled
     THEN \E k \in {Len(copyLog) + 1} :
            /\ clipboard' = [text |-> generatedPassword, by |-> k]
            /\ copyLog' = Append(copyLog, Copy(Generator, generatedPassword, GeneratorClearDelay))
            /\ copied' = [copied EXCEPT ![Generator] = TRUE]
            /\ timers' = timers \cup {Timer("clear", Generator, k, now + GeneratorClearDelay),
                                      Timer("copied", Generator, k, now + GeneratorCopiedDelay)}
            /\ UNCHANGED alerts
     ELSE /\ alerts' = alerts + 1
          /\ UNCHANGED <<clipboard, copyLog, copied, timers>>
  /\ UNCHANGED <<cryptoVars, bulkVars, appVars, asyncVars, foreign, now, generatedPassword>>

\* a clear timer's callback: navigator.clipboard.writeText(''), its
\* rejection caught and dropped
ClearFires(t, fulfilled) ==
  /\ t \in timers /\ t.kind = "clear" /\ t.due <= now
  /\ timers' = timers \ {t}
  /\ IF fulfilled
     THEN /\ clipboard' = [text |-> <<>>, by |-> 0]
          /\ copyLog' = [k \in DOMAIN copyLog |->
                           [copyLog[k] EXCEPT !.attempted = @ \/ k = t.copy,
                                              !.clearedAt = IF k = clipboard.by THEN now ELSE @]]
     ELSE /\ copyLog' = [copyLog EXCEPT ![t.copy].attempted = TRUE, ![t.copy].failed = TRUE]
          /\ UNCHANGED clipboard
  /\ UNCHANGED <<cryptoVars, bulkVars, appVars, asyncVars, foreign, now, copied, generatedPassword, alerts>>

\* a setCopied(false) timer's callback
CopiedFires(t) ==
  /\ t \in timers /\ t.kind = "copied" /\ t.due <= now
  /\ timers' = timers \ {t}
  /\ copied' = [copied EXCEPT ![t.of] = FALSE]
  /\ UNCHANGED <<cryptoVars, bulkVars, appVars, asyncVars, foreign, now, clipboard, generatedPassword, copyLog, alerts>>

\* a second passes; a timer that is due runs first
Tick ==
  /\ now < MaxTime
  /\ \A t \in timers : t.due > now
  /\ now' = now + 1
  /\ UNCHANGED <<cryptoVars, bulkVars, appVars, asyncVars, foreign, clipboard, timers, copied, generatedPassword,
                 copyLog, alerts>>

\* ---------------------------------------------- JavaScript Number values
\* A whole number of any size is the sequence of its base-4096 digits, the
\* least first, with no leading zero digit; zero is the empty sequence.
RECURSIVE BigOfInt(_)
BigOfInt(n) == IF n = 0 THEN <<>> ELSE <<n % 4096>> \o BigOfInt(n \div 4096)

\* x without its leading zero digits
StripZeros(x) ==
  IF \A i \in DOMAIN x : x[i] = 0 THEN <<>>
  ELSE SubSeq(x, 1, CHOOSE i \in DOMAIN x : x[i] # 0 /\ \A j \in (i + 1)..Len(x) : x[j] = 0)

\* digit i of x, 0 beyond its length
DigitAt(x, i) == IF i \in DOMAIN x THEN x[i] ELSE 0

\* whether the digit sums s carry into place i: the nearest lower place
\* that does not pass a carry on makes one
CarryInto(s, i) ==
  \E j \in 1..(i - 1) : s[j] >= 4096 /\ \A k \in (j + 1)..(i - 1) : s[k] = 4095

\* x + y
BigAdd(x, y) ==
  With([i \in 1..((IF Len(x) > Len(y) THEN Len(x) ELSE Len(y)) + 1) |-> DigitAt(x, i) + DigitAt(y, i)],
       LAMBDA s :
    StripZeros([i \in DOMAIN s |-> (s[i] + (IF CarryInto(s, i) THEN 1 ELSE 0)) % 4096]))

RECURSIVE SumRange(_, _, _)
\* terms[lo] + ... + terms[hi], split in halves
SumRange(terms, lo, hi) ==
  IF lo > hi THEN 0
  ELSE IF lo = hi THEN terms[lo]
  ELSE SumRange(terms, lo, (lo + hi) \div 2) + SumRange(terms, ((lo + hi) \div 2) + 1, hi)

\* the whole number whose places hold the sums c[k] < 2^31, each sum split
\* in its three base-4096 digits
Normalise(c) ==
  BigAdd(BigAdd([k \in DOMAIN c |-> c[k] % 4096],
                <<0>> \o [k \in DOMAIN c |-> (c[k] \div 4096) % 4096]),
         <<0, 0>> \o [k \in DOMAIN c |-> c[k] \div 16777216])

\* x * y, for x and y of at most 127 digits: place k of the product sums the
\* digit products x[i] * y[k + 1 - i]
BigMul(x, y) ==
  IF x = <<>> \/ y = <<>> THEN <<>>
  ELSE With(x, LAMBDA xv : With(y, LAMBDA yv :
         With([k \in 1..(Len(xv) + Len(yv) - 1) |->
                 With([i \in 1..Len(xv) |-> xv[i] * DigitAt(yv, k + 1 - i)], LAMBDA terms :
                   SumRange(terms, 1, Len(terms)))],
              LAMBDA c : Normalise(c))))

\* x * m for a whole number x and 0 <= m < 2^19
BigMulSmall(x, m) == BigMul(x, BigOfInt(m))

RECURSIVE BigPow(_, _)
\* base ^ exponent by squaring, with 0 ^ 0 = 1
BigPow(base, exponent) ==
  IF exponent = 0 THEN BigOfInt(1)
  ELSE With(BigPow(base, exponent \div 2), LAMBDA half :
         With(BigMul(half, half), LAMBDA square :
           IF exponent % 2 = 1 THEN BigMulSmall(square, base) ELSE square))

BigLess(x, y) ==
  \/ Len(x) < Len(y)
  \/ /\ Len(x) = Len(y)
     /\ \E i \in DOMAIN x : x[i] < y[i] /\ \A j \in (i + 1)..Len(x) : x[j] = y[j]

RECURSIVE BitsOf(_)
BitsOf(n) == IF n = 0 THEN 0 ELSE 1 + BitsOf(n \div 2)

\* the number of binary digits of x
BitLen(x) == IF x = <<>> THEN 0 ELSE (12 * (Len(x) - 1)) + BitsOf(x[Len(x)])

RECURSIVE PowMod(_, _)
\* 4096 ^ k modulo d
PowMod(k, d) ==
  IF k = 0 THEN 1 % d
  ELSE With(PowMod(k \div 2, d), LAMBDA half :
         IF k % 2 = 1 THEN (((half * half) % d) * (4096 % d)) % d ELSE (half * half) % d)

RECURSIVE ModRange(_, _, _, _)
\* the number of digits x[lo..hi] modulo d, for d < 2^15, split in halves
ModRange(x, lo, hi, d) ==
  IF lo > hi THEN 0
  ELSE IF lo = hi THEN x[lo] % d
  ELSE (ModRange(x, lo, (lo + hi) \div 2, d)
        + (PowMod(((lo + hi) \div 2) + 1 - lo, d) * ModRange(x, ((lo + hi) \div 2) + 1, hi, d))) % d

\* x \div d for a whole number x and 0 < d < 2^15: digit i of the quotient
\* divides the remainder of the digits above it, followed by digit i
BigDivSmall(x, d) ==
  With(x, LAMBDA xv :
    StripZeros([i \in DOMAIN xv |-> ((ModRange(xv, i + 1, Len(xv), d) * 4096) + xv[i]) \div d]))

RECURSIVE BigMulAll(_, _, _)
\* x times factors[i], factors[i + 1], ...
BigMulAll(x, factors, i) ==
  IF i > Len(factors) THEN x ELSE BigMulAll(BigMulSmall(x, factors[i]), factors, i + 1)

RECURSIVE BigDivAll(_, _, _)
\* x divided, rounding down, by the product of factors[i], factors[i + 1], ...
BigDivAll(x, factors, i) ==
  IF i > Len(factors) THEN x ELSE BigDivAll(BigDivSmall(x, factors[i]), factors, i + 1)

\* A Number that is not negative: Infinity, or the quotient of a whole
\* number by a product of whole factors below 2^15. Values are exact where
\* a double is finite: the model keeps the range of a double (Math.pow
\* overflows to Infinity from 2^1024 on) and leaves out its rounding.
Infinity == [inf |-> TRUE, num |-> <<>>, den |-> <<>>]
Number(n) == [inf |-> FALSE, num |-> BigOfInt(n), den |-> <<>>]

\* x / the product of factors
DividedBy(x, factors) == IF x.inf THEN x ELSE [x EXCEPT !.den = @ \o factors]

\* x * m
Times(x, m) == IF x.inf THEN x ELSE [x EXCEPT !.num = BigMulSmall(@, m)]

\* x < y
LessThan(x, y) ==
  IF x.inf THEN FALSE
  ELSE IF y.inf THEN TRUE
  ELSE BigLess(BigMulAll(x.num, y.den, 1), BigMulAll(y.num, x.den, 1))

\* Math.round(x): the floor of x + 0.5, from the floor of 2 * x
MathRound(x) ==
  IF x.inf THEN x
  ELSE [inf |-> FALSE, den |-> <<>>,
        num |-> BigDivSmall(BigAdd(BigDivAll(BigMulSmall(x.num, 2), x.den, 1), BigOfInt(1)), 2)]

\* Math.pow(base, exponent) for whole arguments
MathPow(base, exponent) ==
  With(BigPow(base, exponent), LAMBDA p :
    IF BitLen(p) > 1024 THEN Infinity ELSE [inf |-> FALSE, num |-> p, den |-> <<>>])

\* Math.log2(x), kept as the logarithm of x; Math.pow(2, e) of such an e
MathLog2(x) == [t |-> "log2", of |-> x]
MathPow2(e) == e.of

\* Math.round(Math.log2(x)) for a whole x >= 1: the e with
\* 2^(2e - 1) <= x^2 < 2^(2e + 1)
MathRoundLog2(e) ==
  IF e.of.inf THEN Infinity ELSE Number(BitLen(BigMul(e.of.num, e.of.num)) \div 2)

\* --------------------------------- crypto.ts: the password strength estimate
IsLower(c) == c \in 97..122
IsUpper(c) == c \in 65..90

\* the charsetSize calculatePasswordEntropy adds up
CharsetSize(password) ==
  (IF \E i \in DOMAIN password : IsLower(password[i]) THEN 26 ELSE 0)
  + (IF \E i \in DOMAIN password : IsUpper(password[i]) THEN 26 ELSE 0)
  + (IF \E i \in DOMAIN password : IsDigit(password[i]) THEN 10 ELSE 0)
  + (IF \E i \in DOMAIN password :
          ~IsLower(password[i]) /\ ~IsUpper(password[i]) /\ ~IsDigit(password[i])
     THEN 32 ELSE 0)

calculatePasswordEntropy(password) == MathLog2(MathPow(CharsetSize(password), Len(password)))

guessesPerSecond == <<1000, 1000, 1000>>
\* 365.25 * 24 * 60 * 60, as 8766 * 60 * 60
SecondsPerYear == <<8766, 60, 60>>

\* the tiers chosen by comparisons that take the boundary into the lower tier
StrengthLessOrEqual(yearsToCrack) ==
  IF ~LessThan(DividedBy(Number(1), <<1000>>), yearsToCrack)
  THEN [timeToCrack |-> [n |-> Null, unit |-> "Instantly"], strength |-> "Very Weak"]
  ELSE IF ~LessThan(Number(1), yearsToCrack)
  THEN [timeToCrack |-> [n |-> MathRound(Times(yearsToCrack, 365)), unit |-> " days"], strength |-> "Weak"]
  ELSE IF ~LessThan(Number(1000), yearsToCrack)
  THEN [timeToCrack |-> [n |-> MathRound(yearsToCrack), unit |-> " years"], strength |-> "Moderate"]
  ELSE IF ~LessThan(Number(1000000), yearsToCrack)
  THEN [timeToCrack |-> [n |-> MathRound(DividedBy(yearsToCrack, <<1000>>)), unit |-> "K years"],
        strength |-> "Strong"]
  ELSE [timeToCrack |-> [n |-> MathRound(DividedBy(yearsToCrack, <<1000, 1000>>)), unit |-> "M years"],
        strength |-> "Very Strong"]

\* the tier and the text estimateTimeToCrack chooses for yearsToCrack; the
\* text is kept as the number and the suffix its template formats
Strength(yearsToCrack) ==
  IF LessThan(yearsToCrack, DividedBy(Number(1), <<1000>>))
  THEN [timeToCrack |-> [n |-> Null, unit |-> "Instantly"], strength |-> "Very Weak"]
  ELSE IF LessThan(yearsToCrack, Number(1))
  THEN [timeToCrack |-> [n |-> MathRound(Times(yearsToCrack, 365)), unit |-> " days"], strength |-> "Weak"]
  ELSE IF LessThan(yearsToCrack, Number(1000))
  THEN [timeToCrack |-> [n |-> MathRound(yearsToCrack), unit |-> " years"], strength |-> "Moderate"]
  ELSE IF LessThan(yearsToCrack, Number(1000000))
  THEN [timeToCrack |-> [n |-> MathRound(DividedBy(yearsToCrack, <<1000>>)), unit |-> "K years"],
        strength |-> "Strong"]
  ELSE [timeToCrack |-> [n |-> MathRound(DividedBy(yearsToCrack, <<1000, 1000>>)), unit |-> "M years"],
        strength |-> "Very Strong"]

\* yearsToCrack as estimateTimeToCrack computes it from the entropy
YearsToCrack(entropy) == DividedBy(DividedBy(MathPow2(entropy), guessesPerSecond), SecondsPerYear)

estimateTimeToCrack(password) ==
  With(calculatePasswordEntropy(password), LAMBDA entropy :
  With(YearsToCrack(entropy), LAMBDA yearsToCrack :
  With(Strength(yearsToCrack), LAMBDA chosen :
    [entropy |-> MathRoundLog2(entropy), timeToCrack |-> chosen.timeToCrack,
     strength |-> chosen.strength])))

\* one call of calculatePasswordEntropy
Entropy(password) ==
  /\ ret = NoCall
  /\ ret' = Call("calculatePasswordEntropy", JStr(password), <<>>,
                 Returns(calculatePasswordEntropy(password)), <<>>)
  /\ UNCHANGED <<rngCount, oracle, produced, bulkVars, appVars, sideVars>>

\* one call of estimateTimeToCrack; the yearsToCrack it computed on the way
\* is kept with the call
Estimate(password) ==
  /\ ret = NoCall
  /\ ret' = Call("estimateTimeToCrack", JStr(password), <<>>, Returns(estimateTimeToCrack(password)),
                 YearsToCrack(calculatePasswordEntropy(password)))
  /\ UNCHANGED <<rngCount, oracle, produced, bulkVars, appVars, sideVars>>

\* the records of the export and import runs
ExportRecords == {RecordBank, RecordWide}

EncryptAny == ret = NoCall /\ \E data \in Records, p \in EncryptPasswords : Encrypt(data, p)
DecryptAny == ret = NoCall /\ \E b \in StoredBlobs, p \in Passwords : Decrypt(b, p)
EncryptOne == ret = NoCall /\ \E data \in ExportRecords, p \in BulkPasswords : Encrypt(data, p)
ExportAny ==
  /\ ret = NoCall
  /\ exp.phase = "idle"
  /\ \E k \in 0..MaxItems : \E items \in [1..k -> ExportRecords], p \in ExportPasswords : ExportStart(items, p)
ExportItemAny == \E i \in 1..MaxItems : ExportItemDone(i)
ImportAny ==
  /\ ret = NoCall
  /\ imp.phase = "idle"
  /\ \E text \in ImportTexts, p \in BulkPasswords : ImportStart(text, p)
ImportItemAny == \E i \in 1..MaxItems : ImportItemDone(i)

\* the plaintexts sealed outside encryptVaultItem: a whole record, a record
\* without notes, an empty object, a number, null, a text that is not JSON,
\* and bytes that are not UTF-8
ForeignPlaintexts ==
  {TextEncode(JSONStringify(RecordBank)),
   TextEncode(JSONStringify(WithoutKey(RecordBank, KeyNotes))),
   <<123, 125>>, <<53>>, <<110, 117, 108, 108>>, <<123>>, <<255>>}

SealForeignAny == \E pt \in ForeignPlaintexts : SealForeign(pt, PasswordB)
DecryptForeignAny ==
  ret = NoCall /\ \E k \in DOMAIN foreign, p \in BulkPasswords : Decrypt(foreign[k].blob, p)

\* the byte sequences that are encoded: every sequence of up to MaxBytes
\* bytes over four values, and sequences of one chunk, one chunk and a byte,
\* and two chunks
CodecBytes == {0, 65, 128, 255}
LongBytes(n) == SubSeq([i \in 1..n |-> ((i * 7) + (i \div chunkSize)) % 256], 1, n)
CodecInputs ==
  UNION {[1..n -> CodecBytes] : n \in 0..MaxBytes}
  \cup {LongBytes(n) : n \in {chunkSize, chunkSize + 1, 2 * chunkSize}}

EncodeAny == \E bytes \in CodecInputs : Encode(bytes)

\* the copies, the timers' callbacks and the outcomes of their clipboard
\* writes; the generator's random words are all 1
VaultCopyAny == \E i \in DOMAIN ShownItems, fulfilled \in BOOLEAN : VaultCopy(i, fulfilled)
GenerateForCopy == handleGenerate([i \in 1..GeneratorLength |-> Uint32(0, 1)])
GeneratorCopyAny == \E fulfilled \in BOOLEAN : GeneratorCopy(fulfilled)
ClearFiresAny == \E t \in timers, fulfilled \in BOOLEAN : ClearFires(t, fulfilled)
CopiedFiresAny == \E t \in timers : CopiedFires(t)

\* the passwords whose strength is estimated: every text of up to MaxPwLen
\* characters over a letter of each case, a digit and a symbol, and longer
\* ones that repeat a pattern, up to the lengths where Math.pow overflows
StrengthAlphabet == {97, 65, 49, 33}
Cycle(pattern, n) == [i \in 1..n |-> pattern[((i - 1) % Len(pattern)) + 1]]
CyclePatterns == {<<97>>, <<97, 65>>, <<33>>, <<97, 65, 49, 33>>}
CycleLengths == {7, 9, 10, 12, 157, 218}
StrengthPasswords ==
  UNION {[1..n -> StrengthAlphabet] : n \in 0..MaxPwLen}
  \cup {Cycle(pattern, n) : pattern \in CyclePatterns, n \in CycleLengths}

EntropyAny == \E password \in StrengthPasswords : Entropy(password)
EstimateAny == \E password \in StrengthPasswords : Estimate(password)

\* the backend's answer to signup and login is its own to give: the code of
\* its controller is not part of what is modelled here
LoginAny ==
  /\ AuthRequests < MaxAuth
  /\ \E email \in Emails, accepted \in BOOLEAN : login(email, AccountPassword(email), accepted)
SignupAny ==
  /\ AuthRequests < MaxAuth
  /\ \E email \in Emails, accepted \in BOOLEAN : signup(email, AccountPassword(email), accepted)
AddAny == \E item \in ExportRecords : handleAddItem(item)
UpdateAny == \E editingItem \in Range(vaultItems), item \in ExportRecords : handleUpdateItem(editingItem, item)
DeleteAny == \E shown \in Range(vaultItems) : handleDeleteItem(Get(shown, KeyId))

\* the requests other clients send. Their Authorization headers: a token
\* of each account, then none, another scheme, Bearer without a token, an
\* empty token, text that is no token, a token signed with another secret,
\* an expired token
BlobOne == EncryptedData(<<65>>, <<66>>, <<67>>)
BlobTwo == EncryptedData(<<68>>, <<69>>, <<70>>)
GoodHeaders == {Authorization(<<Bearer, IssuedToken(email)>>) : email \in Emails}
BadHeaders ==
  {Undefined,
   Authorization(<<<<66, 97, 115, 105, 99>>, IssuedToken(EmailA)>>),
   Authorization(<<Bearer>>),
   Authorization(<<Bearer, JStr(<<>>)>>),
   Authorization(<<Bearer, JStr(<<120>>)>>),
   Authorization(<<Bearer, Jwt(EmailA, MaxTime + 1, OtherSecret)>>),
   Authorization(<<Bearer, Jwt(EmailA, 0, JwtSecret)>>)}
\* bodies: two with a whole blob; then without encryptedData, with null
\* for it, without salt, with an empty iv, with a number and with an
\* object for encrypted
WholeBodies == {CreateVaultItemData(BlobOne), CreateVaultItemData(BlobTwo)}
OtherBodies ==
  {JObj(<<>>, <<>>),
   CreateVaultItemData(Null),
   CreateVaultItemData(WithoutKey(BlobOne, KeySalt)),
   CreateVaultItemData(EncryptedData(<<65>>, <<66>>, <<>>)),
   CreateVaultItemData(PutKey(BlobOne, KeyEncrypted, JNum(5))),
   CreateVaultItemData(PutKey(BlobOne, KeyEncrypted, JObj(<<>>, <<>>)))}
\* the :id of a route: the ids of the first documents, and text that is
\* no id
RouteIds == {JStr(NumberToText(n)) : n \in 1..MaxItems} \cup {JStr(<<120>>)}
RoutesOf(authorization, ids, bodies) ==
  {Request("GET", "/vault", Null, Undefined, authorization),
   Request("DELETE", "/vault", Null, Undefined, authorization)}
  \cup {Request("POST", "/vault", Null, body, authorization) : body \in bodies}
  \cup {Request(method, "/vault/:id", id, Undefined, authorization) : method \in {"GET", "DELETE"}, id \in ids}
  \cup {Request("PUT", "/vault/:id", id, body, authorization) : id \in ids, body \in bodies}
ClientRequests ==
  UNION {RoutesOf(authorization, RouteIds, WholeBodies \cup OtherBodies) : authorization \in GoodHeaders}
  \cup UNION {RoutesOf(authorization, {JStr(NumberToText(1))}, {CreateVaultItemData(BlobOne)}) :
                authorization \in BadHeaders \cup GoodHeaders}

SendAny == \E req \in ClientRequests : Send(req)
ReceiveAny == \E k \in DOMAIN handlers : Receive(k)
RemoveUserAny == \E userId \in users : RemoveUser(userId)
ServeAny == \E k \in DOMAIN handlers : Serve(k)
NetworkErrorAny == \E k \in DOMAIN handlers : NetworkError(k)
ResumeAny == \E k \in DOMAIN handlers : Resume(k)

\* single encryptions, and decryptions of stored, possibly tampered, blobs
Next ==
  \/ EncryptAny
  \/ DecryptAny
  \/ Return

Spec == Init /\ [][Next]_vars

\* single encryptions and exports, in any interleaving
NextEncrypt ==
  \/ EncryptOne
  \/ ExportAny
  \/ ExportItemAny
  \/ ExportFinish
  \/ Return

SpecEncrypt == Init /\ [][NextEncrypt]_vars

\* exports and imports of containers, one call at a time
NextBulk ==
  \/ (imp.phase = "idle" /\ ExportAny)
  \/ ExportItemAny
  \/ ExportFinish
  \/ (exp.phase = "idle" /\ ImportAny)
  \/ ImportItemAny
  \/ ImportSettle
  \/ Return

SpecBulk == Init /\ [][NextBulk]_vars

\* the sessions of two accounts and the vault page against the backend,
\* one call at a time
NextApp ==
  \/ (handlers = <<>> /\ SignupAny)
  \/ (handlers = <<>> /\ LoginAny)
  \/ (handlers = <<>> /\ logout)
  \/ (handlers = <<>> /\ AddAny)
  \/ (handlers = <<>> /\ UpdateAny)
  \/ (handlers = <<>> /\ DeleteAny)
  \/ ServeAny
  \/ ResumeAny

SpecApp == Init /\ [][NextApp]_vars

\* requests of several clients to the vault routes, one at a time, and
\* deletions of accounts
NextServer ==
  \/ (handlers = <<>> /\ SendAny)
  \/ ServeAny
  \/ ReceiveAny
  \/ RemoveUserAny

SpecServer == Init /\ [][NextServer]_vars

\* one account's sessions and its vault page against the backend
LoginOne ==
  /\ AuthRequests < MaxAuth
  /\ login(EmailA, AccountPassword(EmailA), TRUE)
AddOne == handleAddItem(RecordBank)
UpdateOne == \E editingItem \in Range(vaultItems) : handleUpdateItem(editingItem, RecordWide)
NextPage ==
  \/ LoginOne
  \/ logout
  \/ Reload
  \/ AddOne
  \/ UpdateOne
  \/ DeleteAny
  \/ ServeAny
  \/ NetworkErrorAny
  \/ ResumeAny

\* every request is answered or fails, and every answered call resumes
SpecPage ==
  /\ Init /\ [][NextPage]_vars
  /\ WF_vars(ServeAny \/ NetworkErrorAny) /\ WF_vars(ResumeAny)

\* one session of the vault page in which every request is answered
NextSync ==
  \/ LoginOne
  \/ AddOne
  \/ UpdateOne
  \/ DeleteAny
  \/ ServeAny
  \/ ResumeAny

SpecSync == Init /\ [][NextSync]_vars

\* password generation
NextGen ==
  \/ GenerateAny
  \/ Return

SpecGen == Init /\ [][NextGen]_vars

\* decryptions of blobs sealed outside encryptVaultItem
NextForeign ==
  \/ SealForeignAny
  \/ DecryptForeignAny
  \/ Return

SpecForeign == Init /\ [][NextForeign]_vars

\* base64 encodings and the decodings of their results
NextCodec ==
  \/ EncodeAny
  \/ Decode
  \/ Return

SpecCodec == Init /\ [][NextCodec]_vars

\* copies to the clipboard and their timers; time passes and a due timer
\* runs
NextClipboard ==
  \/ VaultCopyAny
  \/ GenerateForCopy
  \/ GeneratorCopyAny
  \/ ClearFiresAny
  \/ CopiedFiresAny
  \/ Tick

SpecClipboard ==
  /\ Init /\ [][NextClipboard]_vars
  /\ WF_vars(Tick) /\ WF_vars(ClearFiresAny) /\ WF_vars(CopiedFiresAny)

\* password strength estimates
NextStrength ==
  \/ EntropyAny
  \/ EstimateAny
  \/ Return

SpecStrength == Init /\ [][NextStrength]_vars

\* ------------------------------------------------- single-record properties
\* decryptVaultItem has just returned for the blob of encryption k
DecryptedBlobOf(k) == ret.op = "decryptVaultItem" /\ ret.arg = produced[k].blob

\* decryptVaultItem has just returned for the blob of encryption k with its
\* encrypted field changed to another text
DecryptedTamperedOf(k) ==
  /\ ret.op = "decryptVaultItem"
  /\ ret.arg = WithEncrypted(produced[k].blob, EncryptedText(ret.arg))
  /\ EncryptedText(ret.arg) # EncryptedText(produced[k].blob)

\* C1: round trip. Decrypting the blob encryptVaultItem returned for record r
\* under password p, with the same p, returns a record whose five fields
\* equal those of r (empty, non-ASCII and unpaired-surrogate fields included).
RoundTrip ==
  \A k \in DOMAIN produced :
    (DecryptedBlobOf(k) /\ ret.pw = produced[k].pw)
      => /\ ret.out.ok
         /\ \A f \in Range(VaultItemKeys) : Get(ret.out.v, f) = Get(produced[k].data, f)

\* a record with non-ASCII and empty fields has been encrypted and decrypted
RoundTripWitness ==
  \E k \in DOMAIN produced :
    /\ DecryptedBlobOf(k) /\ ret.pw = produced[k].pw
    /\ produced[k].data = RecordWide
    /\ ret.out.ok

Fresh ==
  \A i, j \in DOMAIN produced :
    i # j => /\ Get(produced[i].blob, KeySalt) # Get(produced[j].blob, KeySalt)
             /\ Get(produced[i].blob, KeyIv) # Get(produced[j].blob, KeyIv)
             /\ <<produced[i].key, produced[i].iv>> # <<produced[j].key, produced[j].iv>>

\* a single call and an item of a running export have encrypted the same
\* record under the same master password
FreshWitness ==
  /\ exp.phase = "running"
  /\ Len(exp.items) = 1 /\ exp.results[1] # Undefined
  /\ Len(produced) = 2
  /\ produced[1].data = produced[2].data /\ produced[1].pw = produced[2].pw

\* ------------------------------------------------ export / import properties
\* importVaultData has just returned or thrown
Imported == ret.op = "importVaultData"
\* exportVaultData has just returned
Exported == ret.op = "exportVaultData"

\* the record whose encryption produced blob, Null if none did
RecordOf(blob) ==
  IF \E k \in DOMAIN produced : produced[k].blob = blob
  THEN produced[CHOOSE k \in DOMAIN produced : produced[k].blob = blob].data
  ELSE Null

\* C6: import atomicity. Once the decryption of any item has rejected,
\* importVaultData throws and returns no record, however many other items had
\* decrypted by then and in whatever order they completed.
ImportAtomic ==
  (Imported /\ \E i \in DOMAIN ret.trace : Rejected(ret.trace[i]))
    => ~ret.out.ok /\ ret.out.v = Null

\* an import has thrown although another item of it had already decrypted
ImportAtomicWitness ==
  /\ Imported /\ ~ret.out.ok
  /\ \E i, j \in DOMAIN ret.trace : Rejected(ret.trace[i]) /\ ret.trace[j].ok

\* C7 as stated: importVaultData on a container without version or without
\* items throws an error other than the one it throws when an item fails to
\* decrypt.
InvalidContainerDistinct ==
  (Imported /\ \E c \in {JSONParse(ret.arg.s).v} :
                 c.t = "obj" /\ (Get(c, KeyVersion) = Undefined \/ Get(c, KeyItems) = Undefined))
    => ~ret.out.ok /\ ret.out.err # ImportFailed

\* C8: order preservation. Whatever order the per-item operations finish in,
\* place i of the export's results holds the encryption of input record i and
\* place i of the import's results the decryption of container item i, while
\* they run and in what exportVaultData and importVaultData return.
OrderPreserved ==
  /\ \A i \in DOMAIN exp.results :
       exp.results[i] # Undefined => RecordOf(exp.results[i]) = exp.items[i]
  /\ \A i \in DOMAIN imp.results :
       imp.results[i].ok => imp.results[i].v = RecordOf(imp.items[i])
  /\ Exported =>
       \E c \in {JSONParse(ret.out.v.s).v} :
         /\ Len(Get(c, KeyItems).a) = Len(ret.arg.a)
         /\ \A i \in DOMAIN ret.arg.a : RecordOf(Get(c, KeyItems).a[i]) = ret.arg.a[i]
  /\ (Imported /\ ret.out.ok) =>
       \E c \in {JSONParse(ret.arg.s).v} :
         /\ Len(ret.out.v.a) = Len(Get(c, KeyItems).a)
         /\ \A i \in DOMAIN ret.out.v.a : ret.out.v.a[i] = RecordOf(Get(c, KeyItems).a[i])

\* the second of two different records has been encrypted before the first
ExportOrderWitness ==
  /\ exp.phase = "running" /\ Len(exp.items) = 2 /\ exp.items[1] # exp.items[2]
  /\ exp.results[1] = Undefined /\ exp.results[2] # Undefined

\* C9: export/import round trip. exportVaultData returns a container with
\* version 1 and one blob per input record, and importing that text under
\* the same master password returns the input records, the empty sequence
\* included.
BulkRoundTrip ==
  /\ Exported =>
       \E c \in {JSONParse(ret.out.v.s).v} :
         /\ Get(c, KeyVersion) = JNum(1)
         /\ Get(c, KeyItems).t = "arr" /\ Len(Get(c, KeyItems).a) = Len(ret.arg.a)
  /\ (Imported /\ file # NoFile /\ ret.arg.s = file.text /\ ret.pw = file.pw)
       => ret.out.ok /\ ret.out.v = JArr(file.items)

\* a container of two different records has been imported under the
\* password it was exported with
BulkRoundTripWitness ==
  /\ Imported /\ ret.arg.s = file.text /\ ret.pw = file.pw
  /\ Len(file.items) = 2 /\ file.items[1] # file.items[2]
  /\ ret.out.ok

\* ------------------------------------------------------- session properties
RECURSIVE Strings(_)
\* the strings a JSON value holds, at any depth
Strings(v) ==
  CASE v.t = "str" -> {v.s}
    [] v.t = "arr" -> UNION {Strings(v.a[i]) : i \in DOMAIN v.a}
    [] v.t = "obj" -> UNION {Strings(v.vals[i]) : i \in DOMAIN v.vals}
    [] OTHER -> {}

\* the non-empty field values of the records encrypted so far
PlaintextFields ==
  UNION {{Get(produced[k].data, f).s : f \in Range(VaultItemKeys)} : k \in DOMAIN produced} \ {<<>>}

\* C2 as stated: no request body sent to the backend holds the value kept as
\* masterPassword, or a field of a record in the clear.
ServerNeverReceivesSecrets ==
  \A r \in sent :
    /\ masterPassword.t = "str" => masterPassword.s \notin Strings(r.body)
    /\ Strings(r.body) \cap PlaintextFields = {}

\* ------------------------------------------------------ generator properties
Generated == ret.op = "generateSecurePassword"

\* the characters the options allow: letters, digits if includeNumbers,
\* the symbols if includeSymbols
Allowed(options) ==
  Range(lowercase) \cup Range(uppercase)
  \cup (IF options.includeNumbers THEN Range(numbers) ELSE {})
  \cup (IF options.includeSymbols THEN Range(symbols) ELSE {})

\* generateSecurePassword answered with options.length allowed characters
RightLengthAndCharset ==
  /\ ret.out.ok
  /\ Len(ret.out.v.s) = ret.arg.length
  /\ \A i \in DOMAIN ret.out.v.s : ret.out.v.s[i] \in Allowed(ret.arg)

ClearLetters == (Range(lowercase) \cup Range(uppercase)) \ Range(ambiguous)

\* C11: with excludeAmbiguous set, whatever includeNumbers and includeSymbols
\* are, no character of the generated password is one of i l 1 L o 0 O, and
\* with both other flags off every character is a letter other than i l L o O.
NoAmbiguous ==
  (Generated /\ ret.out.ok /\ ret.arg.excludeAmbiguous)
    => /\ \A i \in DOMAIN ret.out.v.s : ret.out.v.s[i] \notin Range(ambiguous)
       /\ (~ret.arg.includeNumbers /\ ~ret.arg.includeSymbols)
            => \A i \in DOMAIN ret.out.v.s : ret.out.v.s[i] \in ClearLetters

\* a password has been generated with excludeAmbiguous from a random word
\* that selects an ambiguous character where none is removed
NoAmbiguousWitness ==
  /\ Generated /\ ret.out.ok /\ ret.arg.excludeAmbiguous
  /\ \E i \in DOMAIN ret.trace :
       CharsetUnfiltered(ret.arg)[Uint32Mod(ret.trace[i], Len(CharsetUnfiltered(ret.arg))) + 1]
         \in Range(ambiguous)

\* the number of 16-bit halves h with h % n = a, for a < n
HalfCount(a, n) == ((65535 - a) \div n) + 1

RECURSIVE SelectedFrom(_, _, _)
\* the number of Uint32 words with hi % n >= a whose Uint32Mod by n is k: for
\* each residue of hi there is one residue of lo that gives k
SelectedFrom(k, n, a) ==
  IF a >= n THEN 0
  ELSE HalfCount(a, n) * HalfCount((k + (n * n) - (a * (65536 % n))) % n, n) + SelectedFrom(k, n, a + 1)

\* the number of the 2^32 values of a random word that select place k of a
\* character set of n characters
SelectedBy(k, n) == SelectedFrom(k, n, 0)

\* C12 as stated: each output character is chosen uniformly, i.e. over all
\* 2^32 values of the random word every place of the final character set is
\* selected by the same number of values.
UniformSelection ==
  (Generated /\ ret.out.ok)
    => \E n \in {Len(Charset(ret.arg))} :
         \A j, k \in 0..(n - 1) : SelectedBy(j, n) = SelectedBy(k, n)

\* C13: for all eight combinations of includeNumbers, includeSymbols and
\* excludeAmbiguous the final character set is not empty: a call with
\* length >= 1 selects every character from a non-empty set, so it returns
\* exactly length characters of it, and no call fails for its policy.
CharsetNeverEmpty ==
  (Generated /\ ret.arg.length >= 1)
    => /\ Len(Charset(ret.arg)) >= 1
       /\ ret.out.ok => /\ Len(ret.out.v.s) = ret.arg.length
                        /\ \A i \in DOMAIN ret.out.v.s : ret.out.v.s[i] \in Range(Charset(ret.arg))
       /\ ~ret.out.ok => ret.out.err # "InvalidPolicyError"

\* the combinations of the three flags for which a password has been
\* generated
FlagsGenerated(state) ==
  IF state.op = "generateSecurePassword" /\ state.out.ok
  THEN {<<state.arg.includeNumbers, state.arg.includeSymbols, state.arg.excludeAmbiguous>>}
  ELSE {}

\* a password has been generated from the smallest character set: letters
\* only, the ambiguous ones removed
CharsetNeverEmptyWitness ==
  /\ FlagsGenerated(ret) = {<<FALSE, FALSE, TRUE>>}
  /\ Len(Charset(ret.arg)) = 47
  /\ Len(ret.out.v.s) = MaxPwLen

\* ------------------------------------------------------ estimator properties
EntropyComputed == ret.op = "calculatePasswordEntropy"
Estimated == ret.op = "estimateTimeToCrack"

\* the character classes that occur in a password
Classes(password) ==
  {class \in {"lowercase", "uppercase", "digit", "other"} :
     \E i \in DOMAIN password :
       class = (IF password[i] \in 97..122 THEN "lowercase"
                ELSE IF password[i] \in 65..90 THEN "uppercase"
                ELSE IF password[i] \in 48..57 THEN "digit"
                ELSE "other")}

\* the sum of the nominal sizes of the classes of a password
Alphabet(password) ==
  (IF "lowercase" \in Classes(password) THEN 26 ELSE 0)
  + (IF "uppercase" \in Classes(password) THEN 26 ELSE 0)
  + (IF "digit" \in Classes(password) THEN 10 ELSE 0)
  + (IF "other" \in Classes(password) THEN 32 ELSE 0)

\* C14 as stated: for every password of every length the entropy returned
\* is length * log2(A), i.e. the logarithm of exactly A ^ length, A the sum
\* of the nominal sizes of the classes that occur in the password.
EntropyIsLengthTimesLog2 ==
  EntropyComputed
    => /\ ~MathPow2(ret.out.v).inf
       /\ MathPow2(ret.out.v).num = BigPow(Alphabet(ret.arg.s), Len(ret.arg.s))

\* e1 < e2 for two entropies
EntropyLess(e1, e2) == LessThan(MathPow2(e1), MathPow2(e2))

\* C15 as stated: a password whose classes are a strict subset of those of
\* another password of the same non-zero length has a strictly smaller
\* entropy.
EntropyMonotone ==
  EntropyComputed
    => \A other \in StrengthPasswords :
         (/\ Len(other) = Len(ret.arg.s) /\ Len(other) > 0
          /\ Classes(other) \subseteq Classes(ret.arg.s) /\ Classes(other) # Classes(ret.arg.s))
           => EntropyLess(calculatePasswordEntropy(other), ret.out.v)

\* the boundaries between the tiers, in years: 0.001, 1, 1000, 1000000
TierBoundaries == {DividedBy(Number(1), <<1000>>), Number(1), Number(1000), Number(1000000)}

\* the place of a tier among the five, from 0 for the lowest
StrengthRank(strength) ==
  CASE strength = "Very Weak" -> 0
    [] strength = "Weak" -> 1
    [] strength = "Moderate" -> 2
    [] strength = "Strong" -> 3
    [] strength = "Very Strong" -> 4

\* the number of boundaries a years-to-crack value has reached
BoundariesReached(years) == Cardinality({b \in TierBoundaries : ~LessThan(years, b)})

\* years-to-crack values at, just below and just above the boundaries, and
\* the least and the greatest value
YearsSamples ==
  TierBoundaries
  \cup {Number(0), Infinity}
  \cup {DividedBy(Times(b, 999), <<1000>>) : b \in TierBoundaries}
  \cup {DividedBy(Times(b, 1001), <<1000>>) : b \in TierBoundaries}

\* C16: strength tiers. estimateTimeToCrack gives every years-to-crack value
\* the one tier whose place is the number of boundaries (0.001, 1, 1000,
\* 1000000) the value is not strictly less than: a value equal to a boundary
\* is in the tier above it (exactly 1 year is Moderate, not Weak), and of two
\* values the larger never gets the lower tier.
StrengthTiers ==
  /\ Estimated => StrengthRank(ret.out.v.strength) = BoundariesReached(ret.trace)
  /\ \A y \in YearsSamples : StrengthRank(Strength(y).strength) = BoundariesReached(y)
  /\ \A b \in TierBoundaries :
       StrengthRank(Strength(b).strength) = 1 + Cardinality({lower \in TierBoundaries : LessThan(lower, b)})
  /\ Strength(Number(1)).strength = "Moderate"
  /\ Estimated =>
       \A y \in YearsSamples :
         /\ LessThan(y, ret.trace) => StrengthRank(Strength(y).strength) <= StrengthRank(ret.out.v.strength)
         /\ LessThan(ret.trace, y) => StrengthRank(ret.out.v.strength) <= StrengthRank(Strength(y).strength)

\* twelve lowercase letters have been estimated: more than 1 and less than
\* 1000 years, Moderate
StrengthTiersWitness ==
  /\ Estimated
  /\ ret.arg.s = Cycle(<<97>>, 12)
  /\ LessThan(Number(1), ret.trace) /\ LessThan(ret.trace, Number(1000))
  /\ ret.out.v.strength = "Moderate"

\* ---------------------------------------------------- malformed plaintexts
\* a value with all five fields of a record
WellFormedRecord(v) == v.t = "obj" /\ \A f \in Range(VaultItemKeys) : Get(v, f) # Undefined

\* C17 as stated: decrypting a blob that authenticates but whose plaintext
\* is not a well-formed record fails; decryptVaultItem never returns a value
\* that lacks one of the five fields.
MalformedRejected ==
  (ret.op = "decryptVaultItem" /\ ret.out.ok) => WellFormedRecord(ret.out.v)

\* --------------------------------------------------------- codec properties
\* C18: encoding round trip. For every byte sequence, those of one chunk, of
\* more than one chunk and of whole chunks included, the binary string
\* arrayBufferToBase64 builds from its chunks holds the bytes in order, none
\* lost or doubled, and base64ToArrayBuffer of its result returns the bytes.
CodecRoundTrip ==
  /\ ret.op = "arrayBufferToBase64"
       => /\ FromCharCodeChunks(ret.arg, 0) = ret.arg
          /\ Len(ret.out.v.s) = 4 * ((Len(ret.arg) + 2) \div 3)
  /\ ret.op = "base64ToArrayBuffer" => ret.out.ok /\ ret.out.v = ret.trace

\* a sequence of one chunk and one byte more has been encoded and decoded
CodecRoundTripWitness ==
  /\ ret.op = "base64ToArrayBuffer"
  /\ Len(ret.trace) = chunkSize + 1
  /\ ret.out.ok /\ Len(ret.out.v) = chunkSize + 1

\* ----------------------------------------------------- clipboard properties
\* copy k's text is what the clipboard holds
Holds(k) == clipboard.by = k

\* while the clipboard holds a copy, its interval has not ended, or has just
\* ended and its clear is due now, or its clear was tried and failed
ClearedInTime ==
  \A k \in DOMAIN copyLog :
    Holds(k) => \/ now < copyLog[k].at + AutoClearSeconds
                \/ now = copyLog[k].at + copyLog[k].delay /\ ~copyLog[k].attempted
                \/ copyLog[k].failed

\* no copy's interval ends without its clear being tried
ClearTried ==
  \A k \in DOMAIN copyLog :
    /\ copyLog[k].delay <= AutoClearSeconds
    /\ now > copyLog[k].at + copyLog[k].delay => copyLog[k].attempted

\* a clear that fails changes nothing but its own timer
FailedClearIgnored ==
  (\E k \in DOMAIN copyLog : ~copyLog[k].failed /\ copyLog'[k].failed)
    => UNCHANGED <<clipboard, copied, generatedPassword, alerts, now, cryptoVars, bulkVars, appVars>>

SupersededClearCancelled ==
  /\ \A t \in timers : t.kind = "clear" => t.copy = Len(copyLog)
  /\ \A k \in DOMAIN copyLog :
       copyLog[k].clearedAt >= 0 => copyLog[k].clearedAt >= copyLog[k].at + copyLog[k].delay

\* a copy has been emptied from the clipboard before its own interval passed
ClearedEarly ==
  \E k \in DOMAIN copyLog :
    copyLog[k].clearedAt >= 0 /\ copyLog[k].clearedAt < copyLog[k].at + copyLog[k].delay

\* ------------------------------------------------------- backend properties
\* the backend answers the request of call k in this step
Served(k) ==
  /\ k \in DOMAIN handlers /\ k \in DOMAIN handlers'
  /\ ~handlers[k].answered /\ handlers'[k].answered
  /\ handlers'[k].req = handlers[k].req

\* the account a request's token names
Requester(req) == req.authorization.words[2].userId

\* the documents of docs that are not userId's, in their order
NotOf(userId, docs) == SelectSeq(docs.items, LAMBDA d : d.userId # userId)

\* the :id of req is the id of a document of another account than userId
ForeignId(req, userId, docs) ==
  /\ req.path = "/vault/:id"
  /\ \E d \in Range(docs.items) : d.id = ToStringJS(req.id) /\ d.userId # userId

\* the body of req passes the controller's validation and the schema's cast
Storable(req) ==
  /\ ValidEncryptedData(req.body)
  /\ CastEncryptedData(Get(req.body, KeyEncryptedData)) # Null

Authentic(req) ==
  /\ req.authorization.t = "header"
  /\ Len(req.authorization.words) >= 2
  /\ req.authorization.words[1] = Bearer
  /\ req.authorization.words[2].t = "jwt"
  /\ req.authorization.words[2].key = JwtSecret
  /\ req.authorization.words[2].exp > now
  /\ req.authorization.words[2].userId \in users

\* C22: in every exchange on a vault route, protect calls next() and the
\* controller runs only for a request with an authentic token; any other
\* request (no token, an invalid or expired one, one that names a deleted
\* account) is answered 401, next() is not called and the collection is
\* unchanged.
RoutesProtected ==
  [][\A k \in DOMAIN handlers :
       Served(k) =>
         /\ handlers'[k].next <=> Authentic(handlers[k].req)
         /\ ~Authentic(handlers[k].req) => handlers'[k].res.status = 401 /\ db' = db]_vars

\* a delete-all with a token that is well signed and not expired, and names
\* an account since deleted, has been answered 401 with documents in the
\* collection
RoutesProtectedWitness ==
  /\ db.items # <<>>
  /\ \E k \in DOMAIN handlers :
       /\ handlers[k].answered /\ ~handlers[k].next /\ handlers[k].res.status = 401
       /\ handlers[k].req.method = "DELETE" /\ handlers[k].req.path = "/vault"
       /\ handlers[k].req.authorization \in GoodHeaders
       /\ Requester(handlers[k].req) \notin users
       /\ \E d \in Range(db.items) : d.userId = Requester(handlers[k].req)

\* v is missing, null or the empty string
MissingOrEmpty(v) == v \in {Undefined, Null, JStr(<<>>)}

\* encryptedData, or one of its encrypted, salt and iv, is missing or empty
Incomplete(body) ==
  \/ MissingOrEmpty(Get(body, KeyEncryptedData))
  \/ \E key \in {KeyEncrypted, KeySalt, KeyIv} : MissingOrEmpty(Get(Get(body, KeyEncryptedData), key))

\* C23: every document of the collection has non-empty text for each of
\* encrypted, salt and iv, and a create or update whose encryptedData, or
\* one of its three fields, is missing or empty is answered 400 and leaves
\* the collection unchanged.
BlobComplete ==
  /\ [](\A d \in Range(db.items) : \A key \in {KeyEncrypted, KeySalt, KeyIv} :
          Get(d.encryptedData, key).t = "str" /\ Get(d.encryptedData, key).s # <<>>)
  /\ [][\A k \in DOMAIN handlers :
          (Served(k) /\ handlers'[k].next /\ handlers[k].req.method \in {"POST", "PUT"}
           /\ Incomplete(handlers[k].req.body)) =>
            handlers'[k].res.status = 400 /\ db' = db]_vars

\* an update of a document of the requester with an empty iv has been
\* answered 400, and the document has its fields
BlobCompleteWitness ==
  \E k \in DOMAIN handlers :
    /\ handlers[k].answered /\ handlers[k].next /\ handlers[k].res.status = 400
    /\ handlers[k].req.method = "PUT"
    /\ Get(Get(handlers[k].req.body, KeyEncryptedData), KeyIv) = JStr(<<>>)
    /\ \E d \in Range(db.items) :
         d.id = ToStringJS(handlers[k].req.id) /\ d.userId = Requester(handlers[k].req)

\* ------------------------------------------------------ vault page properties
\* call k of a page whose script runs resumes in this step with the
\* documents getAll answered, and decrypts them
Decrypts(k) ==
  /\ k \in DOMAIN handlers
  /\ handlers[k].answered /\ handlers[k].at = "fetch" /\ handlers[k].page \in {"mounted", "unmounted"}
  /\ Resolved(handlers[k].res) /\ handlers[k].res.data # <<>>
  /\ handlers' = Remove(handlers, k)

\* C24, as the code has it: logout leaves token, user and masterPassword
\* null and the token and user entries of localStorage removed, whatever
\* the session state, calls in progress included; while no user is signed
\* in nothing is held or shown; and every call of the page now mounted
\* closes over the master password now held, so that no call begun after
\* a logout uses the password of before.
LogoutClears ==
  /\ [][logout => (token' = Null /\ user' = Null /\ masterPassword' = Null
                   /\ localStorage' = [token |-> Null, user |-> Null])]_vars
  /\ [](user = Null =>
          /\ token = Null /\ masterPassword = Null /\ vaultItems = <<>>
          /\ localStorage = [token |-> Null, user |-> Null])
  /\ [](\A k \in DOMAIN handlers :
          handlers[k].page = "mounted" => user # Null /\ handlers[k].masterPassword = masterPassword)

\* the user has logged out while a call that closed over the master
\* password awaited its response, and a record had been encrypted
LogoutClearsWitness ==
  /\ user = Null /\ masterPassword = Null /\ localStorage = [token |-> Null, user |-> Null]
  /\ produced # <<>>
  /\ \E k \in DOMAIN handlers :
       handlers[k].page = "unmounted" /\ handlers[k].masterPassword = JStr(AccountPasswordA)

\* C24 as stated: once logout has cleared the session, no step decrypts
\* with the master password of before.
NoUseAfterLogout ==
  [][\A k \in DOMAIN handlers :
       Decrypts(k) => ~(masterPassword = Null /\ handlers[k].masterPassword # Null)]_vars

\* C25 as stated: every call of a handler of the vault page that encrypts
\* or decrypts closes over a master password that is not null.
MasterPasswordPresent ==
  \A k \in DOMAIN handlers :
    handlers[k].page \in {"mounted", "unmounted"} => handlers[k].masterPassword # Null

\* C26 as stated: whenever a user is signed in, isLoading eventually
\* becomes false (or the user is no longer signed in).
LeavesLoading == [](user # Null => <>(~isLoading \/ user = Null))

\* C27 as stated: when no call is in progress and the page has loaded, the
\* items shown are the decryption of the documents the backend holds for
\* the user.
DisplayedMatchesServer ==
  (handlers = <<>> /\ user # Null /\ ~isLoading) =>
    vaultItems = Displayed(getVaultItems(user.id, db).res.data, ToStringJS(masterPassword), oracle)

\* two adds have run to their end, the backend holds both documents and
\* the page shows the first alone: the refetch of the first add resumed
\* after the refetch of the second
StaleAfterReorder ==
  /\ handlers = <<>> /\ user # Null /\ ~isLoading
  /\ Len(db.items) = 2 /\ Len(vaultItems) = 1
  /\ Get(vaultItems[1], KeyId) = JStr(db.items[1].id)

\* the places of the documents that decrypt under password
Decryptable(documents, password) ==
  {i \in DOMAIN documents : decryptVaultItem(documents[i].encryptedData, password, oracle).ok}

\* the place of the j-th document that decrypts
Nth(places, j) == CHOOSE i \in places : Cardinality({m \in places : m < i}) = j - 1

\* items are the documents that decrypt under password, in the documents'
\* order, each with the fields of its record and the id of its document
ShowsDecryptable(items, documents, password) ==
  \E decrypted \in {[i \in DOMAIN documents |->
                       decryptVaultItem(documents[i].encryptedData, password, oracle)]} :
    \E places \in {{i \in DOMAIN documents : decrypted[i].ok}} :
      /\ Len(items) = Cardinality(places)
      /\ \A j \in DOMAIN items :
           \E i \in {Nth(places, j)} :
             /\ Get(items[j], KeyId) = JStr(documents[i].id)
             /\ \A key \in Range(VaultItemKeys) : Get(items[j], key) = Get(decrypted[i].v, key)

\* C28: when fetchVaultItems of the mounted page resumes with the
\* documents getAll answered, the items it shows are exactly the documents
\* that decrypt under the master password it closed over, in the order of
\* the answer, each with the id of its document; a document that fails to
\* decrypt is left out and the others are shown.
ListingToleratesFailure ==
  [][\A k \in DOMAIN handlers :
       (handlers[k].answered /\ handlers[k].at = "fetch" /\ handlers[k].page = "mounted"
        /\ Resolved(handlers[k].res) /\ handlers' = Remove(handlers, k)) =>
         ShowsDecryptable(vaultItems', handlers[k].res.data, ToStringJS(handlers[k].masterPassword))]_vars

\* the backend holds two documents of the user, the newer decrypts under
\* the master password of the page and the older does not, and the page
\* has loaded and shows the one, with its id
ListingToleratesFailureWitness ==
  /\ handlers = <<>> /\ user # Null /\ ~isLoading
  /\ Len(db.items) = 2
  /\ \A d \in Range(db.items) : d.userId = user.id
  /\ Decryptable(db.items, ToStringJS(masterPassword)) = {2}
  /\ Len(vaultItems) = 1
  /\ Get(vaultItems[1], KeyId) = JStr(db.items[2].id)

====
